---- MODULE Spec2Model ----
(***************************************************************************)
(* Plan/Apply tool-calling core of the Excel AI agent: the chat            *)
(* orchestrator (server ChatService), the provider adapter factory, the    *)
(* idempotency ledger (add-in LedgerService) and the add-in chat hook      *)
(* (useChat) that drives tool execution against the workbook.              *)
(***************************************************************************)
EXTENDS Integers, Sequences, FiniteSets, TLC

(***************************************************************************)
(* Bounds of the model.                                                    *)
(***************************************************************************)
MaxSteps == 2
MaxCalls == 2

(***************************************************************************)
(* Generic helpers.                                                        *)
(***************************************************************************)
None == [kind |-> "none"]

SeqsUpTo(S, n) == UNION {[1..k -> S] : k \in 0..n}

(***************************************************************************)
(* Tool catalog (shared/types/tool.ts).                                    *)
(***************************************************************************)
TOOL_DEFINITIONS ==
  << [name |-> "getWorkbookSchema", riskLevel |-> "read"],
     [name |-> "getRangeValues",    riskLevel |-> "read"],
     [name |-> "createSheet",       riskLevel |-> "write"],
     [name |-> "ensureTable",       riskLevel |-> "write"],
     [name |-> "writeRange",        riskLevel |-> "write"],
     [name |-> "setFormula",        riskLevel |-> "write"],
     [name |-> "createChart",       riskLevel |-> "write"],
     [name |-> "createPivotTable",  riskLevel |-> "write"],
     [name |-> "formatRange",       riskLevel |-> "write"],
     [name |-> "addNamedRange",     riskLevel |-> "write"] >>

\* TOOL_DEFINITIONS.find(t => t.name === name): the first match or undefined
FindToolDef(name) ==
  LET idx == {i \in 1..Len(TOOL_DEFINITIONS) : TOOL_DEFINITIONS[i].name = name}
  IN IF idx = {} THEN None
     ELSE TOOL_DEFINITIONS[CHOOSE i \in idx : \A j \in idx : i <= j]

\* toolDef?.riskLevel, "undefined" for a name outside the catalog
RiskOf(name) ==
  LET d == FindToolDef(name)
  IN IF d = None THEN "undefined" ELSE d.riskLevel

(***************************************************************************)
(* JSON text of tool-call arguments.  A text is either the serialization   *)
(* of a value or malformed; parsing the first gives the value back, parsing*)
(* the second throws.                                                      *)
(***************************************************************************)
Stringify(v) == [text |-> "json", of |-> v]
MalformedJson == [text |-> "malformed"]
ParseThrows(s) == s.text # "json"
JSONParse(s) == s.of

Truthy(rec, f) == f \in DOMAIN rec /\ rec[f] # ""

(***************************************************************************)
(* Model catalog and process environment (server).                         *)
(***************************************************************************)
Providers == {"openai", "anthropic", "google"}

EnvVar(provider) ==
  CASE provider = "openai"    -> "OPENAI_API_KEY"
    [] provider = "anthropic" -> "ANTHROPIC_API_KEY"
    [] provider = "google"    -> "GOOGLE_API_KEY"

EnvVars == {EnvVar(p) : p \in Providers}

\* value of an environment variable: unset, set to the empty string, or a key
Unset == "<unset>"
EnvValues == {Unset, "", "sk-key"}

ModelCatalog ==
  << [id |-> "gpt-4o",        provider |-> "openai",    enabled |-> TRUE],
     [id |-> "claude-sonnet", provider |-> "anthropic", enabled |-> TRUE],
     [id |-> "gemini-pro",    provider |-> "google",    enabled |-> TRUE],
     [id |-> "mistral-large", provider |-> "mistral",   enabled |-> TRUE],
     [id |-> "gpt-3.5",       provider |-> "openai",    enabled |-> FALSE] >>

RequestModelIds == {ModelCatalog[i].id : i \in 1..Len(ModelCatalog)} \cup {"no-such-model"}

VARIABLES
  env,        \* process.env of the server: variable name -> value
  catalog,    \* ModelService.catalog.models
  entry,      \* which operation produced the recorded result
  srvReq,     \* the ChatRequest of the last orchestrator call
  srvLlm,     \* what adapter.chat did in that call (None: not invoked)
  srvRes      \* what the orchestrator call gave back to its caller

\* ModelService.getModelById
getModelById(cat, id) ==
  LET idx == {i \in 1..Len(cat) : cat[i].id = id /\ cat[i].enabled}
  IN IF idx = {} THEN None ELSE cat[CHOOSE i \in idx : \A j \in idx : i <= j]

\* an adapter made whenever the variable is set, even to the empty string
createAdapterFor_AcceptsEmpty(e, provider, modelId) ==
  LET apiKey == e[EnvVar(provider)]
  IN IF apiKey = Unset THEN None
     ELSE [kind |-> "adapter", id |-> provider, modelId |-> modelId, apiKey |-> apiKey]

\* createOpenAIAdapter / createAnthropicAdapter / createGoogleAdapter:
\* null when !process.env.<KEY>, otherwise an adapter for the model id
createAdapterFor(e, provider, modelId) ==
  LET apiKey == e[EnvVar(provider)]
  IN IF apiKey = Unset \/ apiKey = "" THEN None
     ELSE [kind |-> "adapter", id |-> provider, modelId |-> modelId, apiKey |-> apiKey]

\* createProviderAdapter: switch on model.provider, default -> null
createProviderAdapter(e, model) ==
  CASE model.provider = "openai"    -> createAdapterFor(e, "openai", model.id)
    [] model.provider = "anthropic" -> createAdapterFor(e, "anthropic", model.id)
    [] model.provider = "google"    -> createAdapterFor(e, "google", model.id)
    [] OTHER                        -> None

(***************************************************************************)
(* Plans and plan extraction (ChatService.extractPlanFromResponse).        *)
(* The text of a response is represented by what the three parse           *)
(* strategies recover from it: nothing, a JSON object without a usable     *)
(* plan, or an object {plan: {id?, description?, steps}} of raw steps      *)
(* whose optional fields may be missing.                                   *)
(***************************************************************************)
ArgsQ1    == [name |-> "Q1"]
ArgsChart == [sheetName |-> "Sheet1", sourceAddress |-> "A1:D10",
              chartType |-> "line", title |-> "Sales"]
ArgsRead  == [sheetName |-> "Sheet1", address |-> "A1:D10"]

RawStepPool ==
  { [id |-> "s1", description |-> "Add sheet Q1", toolName |-> "createSheet",
     args |-> ArgsQ1, expectedEffect |-> "new sheet", riskLevel |-> "write",
     preconditions |-> <<"none">>, postconditions |-> <<"sheet exists">>],
    [toolName |-> "createChart", args |-> ArgsChart] }

RawPlanHeaders == { [id |-> "plan_7", description |-> "Quarterly report"],
                    [kind |-> "noheader"] }

RawPlans ==
  { [kind |-> "rawplan", header |-> h, steps |-> st] :
      h \in RawPlanHeaders, st \in SeqsUpTo(RawStepPool, MaxSteps) }

ParsedTexts ==
  {[kind |-> "nojson"], [kind |-> "object", plan |-> None]}
    \cup {[kind |-> "object", plan |-> rp] : rp \in RawPlans}

Uuids == {"0a1b", "9f8e"}

NormalizeStep_DefaultsToRead(step, index) ==
  [ id             |-> IF Truthy(step, "id") THEN step.id
                       ELSE "step_" \o ToString(index + 1),
    description    |-> IF Truthy(step, "description") THEN step.description
                       ELSE "Unnamed step",
    toolName       |-> step.toolName,
    args           |-> IF "args" \in DOMAIN step THEN step.args ELSE [k \in {} |-> ""],
    expectedEffect |-> IF Truthy(step, "expectedEffect") THEN step.expectedEffect ELSE "",
    riskLevel      |-> IF Truthy(step, "riskLevel") THEN step.riskLevel ELSE "read",
    preconditions  |-> IF "preconditions" \in DOMAIN step THEN step.preconditions ELSE <<>>,
    postconditions |-> IF "postconditions" \in DOMAIN step THEN step.postconditions ELSE <<>> ]

\* step => ({ id: step.id || `step_${index+1}`, ... })
NormalizeStep(step, index) ==
  [ id             |-> IF Truthy(step, "id") THEN step.id
                       ELSE "step_" \o ToString(index + 1),
    description    |-> IF Truthy(step, "description") THEN step.description
                       ELSE "Unnamed step",
    toolName       |-> step.toolName,
    args           |-> IF "args" \in DOMAIN step THEN step.args ELSE [k \in {} |-> ""],
    expectedEffect |-> IF Truthy(step, "expectedEffect") THEN step.expectedEffect ELSE "",
    riskLevel      |-> IF Truthy(step, "riskLevel") THEN step.riskLevel ELSE "write",
    preconditions  |-> IF "preconditions" \in DOMAIN step THEN step.preconditions ELSE <<>>,
    postconditions |-> IF "postconditions" \in DOMAIN step THEN step.postconditions ELSE <<>> ]

\* a null element of plan.steps
NullStep == [kind |-> "null"]

\* parsed?.plan && Array.isArray(parsed.plan.steps) && steps.length > 0 ? plan : null;
\* reading step.id of a null step throws, and the outer catch returns null
extractPlanFromResponse(content, uuid) ==
  LET parsed == content.parsed
  IN IF parsed.kind = "object" /\ parsed.plan # None /\ Len(parsed.plan.steps) > 0
        /\ \A i \in 1..Len(parsed.plan.steps) : parsed.plan.steps[i] # NullStep
     THEN [ kind        |-> "plan",
            id          |-> IF Truthy(parsed.plan.header, "id") THEN parsed.plan.header.id
                            ELSE "plan_" \o uuid,
            description |-> IF Truthy(parsed.plan.header, "description")
                            THEN parsed.plan.header.description ELSE "Generated plan",
            steps       |-> [i \in 1..Len(parsed.plan.steps) |->
                               NormalizeStep(parsed.plan.steps[i], i - 1)] ]
     ELSE None

\* the descriptions listed last step first
StepDescriptions_Reversed(plan) ==
  [i \in 1..Len(plan.steps) |-> plan.steps[Len(plan.steps) + 1 - i].description]

\* plan.steps.map(s => s.description)
StepDescriptions(plan) == [i \in 1..Len(plan.steps) |-> plan.steps[i].description]

(***************************************************************************)
(* What adapter.chat can do in one call: throw, or return a response       *)
(* {content?, toolCalls?, finishReason}.                                   *)
(***************************************************************************)
NoContent == [kind |-> "empty"]
Contents  == {NoContent} \cup {[kind |-> "text", parsed |-> pt] : pt \in ParsedTexts}

ToolCallPool ==
  { [id |-> "call_r", name |-> "getRangeValues", arguments |-> Stringify(ArgsRead)],
    [id |-> "call_w", name |-> "createChart",    arguments |-> Stringify(ArgsChart)],
    [id |-> "call_u", name |-> "deleteWorkbook", arguments |-> Stringify(ArgsQ1)],
    [id |-> "call_m", name |-> "getRangeValues", arguments |-> MalformedJson] }

NoToolCalls == [kind |-> "undefined"]
ToolCallLists ==
  {NoToolCalls} \cup {[kind |-> "array", items |-> tc] : tc \in SeqsUpTo(ToolCallPool, MaxCalls)}

FinishReasons == {"stop", "tool_calls", "length", "error"}

LlmThrows == [kind |-> "throws", message |-> "rate limited"]
LlmOutcomes ==
  {LlmThrows} \cup
  { [kind |-> "response", content |-> c, toolCalls |-> t, finishReason |-> f] :
      c \in Contents, t \in ToolCallLists, f \in FinishReasons }

HasToolCalls(response) == response.toolCalls # NoToolCalls
CallItems(response) == IF HasToolCalls(response) THEN response.toolCalls.items ELSE <<>>

\* chunks.push({type:'tool_call', callId, toolName, args: JSON.parse(arguments)})
ToolCallChunk(tc) ==
  [type |-> "tool_call", callId |-> tc.id, toolName |-> tc.name,
   args |-> JSONParse(tc.arguments)]

SomeParseThrows(calls) == \E i \in 1..Len(calls) : ParseThrows(calls[i].arguments)

PlanChunk(plan) == [type |-> "plan", plan |-> plan]
Lit(str) == [kind |-> "literal", str |-> str]
FinalChunk(message, summary) ==
  [type |-> "final", message |-> message, summaryOfChanges |-> summary]
TextChunk(content) == [type |-> "text", content |-> content]

StepProgressChunk(stepId) == [type |-> "step_progress", stepId |-> stepId, status |-> "started"]

(***************************************************************************)
(* Chat orchestrator (ChatService).  An operation either returns a         *)
(* ChatServiceResult value or throws; Thrown(..) is an exception on its    *)
(* way up the call stack.                                                  *)
(***************************************************************************)
NoResponse == [kind |-> "undefined"]
\* chatCalls counts the invocations of adapter.chat made by the operation
Ok(chunks, plan, chatCalls) ==
  [kind |-> "value", success |-> TRUE, response |-> [kind |-> "array", items |-> chunks],
   plan |-> plan, error |-> None, chatCalls |-> chatCalls]
Fail(message, chatCalls) ==
  [kind |-> "value", success |-> FALSE, response |-> NoResponse, plan |-> None,
   error |-> Lit(message), chatCalls |-> chatCalls]
Thrown(message, chatCalls) ==
  [kind |-> "thrown", error |-> Lit(message), chatCalls |-> chatCalls]
\* an async function that throws gives its caller a rejected promise
Rejected(message, chatCalls) ==
  [kind |-> "rejected", error |-> Lit(message), chatCalls |-> chatCalls]

\* response.toolCalls.filter(tc => TOOL_DEFINITIONS.find(..)?.riskLevel === 'read')
RECURSIVE FilterReadTools(_)
FilterReadTools(calls) ==
  IF calls = <<>> THEN <<>>
  ELSE IF RiskOf(Head(calls).name) = "read"
       THEN <<Head(calls)>> \o FilterReadTools(Tail(calls))
       ELSE FilterReadTools(Tail(calls))

ToolCallChunks_Reversed(calls) ==
  [i \in 1..Len(calls) |-> ToolCallChunk(calls[Len(calls) + 1 - i])]

\* for (const toolCall of toolCalls) chunks.push({type: 'tool_call', ...})
ToolCallChunks(calls) == [i \in 1..Len(calls) |-> ToolCallChunk(calls[i])]

\* ChatService.processPlanMode
processPlanMode(request, llm, uuid) ==
  IF llm.kind = "throws" THEN Thrown(llm.message, 1)
  ELSE
    LET plan == IF llm.content # NoContent
                THEN extractPlanFromResponse(llm.content, uuid) ELSE None
        readTools == FilterReadTools(CallItems(llm))
    IN IF plan # None
       THEN Ok(<< PlanChunk(plan),
                  FinalChunk(Lit("Plan generated successfully. Review and approve to apply."),
                             StepDescriptions(plan)) >>, plan, 1)
       ELSE IF HasToolCalls(llm) /\ Len(CallItems(llm)) > 0
       THEN IF SomeParseThrows(readTools) THEN Thrown("Unexpected token in JSON", 1)
            ELSE Ok(ToolCallChunks(readTools), None, 1)
       ELSE IF llm.content # NoContent
       THEN Ok(<<TextChunk(llm.content)>>, None, 1)
       ELSE Ok(<<>>, None, 1)

\* ChatService.executePlan
RECURSIVE executePlanChunks(_, _)
\* the steps emitted last step first
RECURSIVE executePlanChunks_Reversed(_, _)
executePlanChunks_Reversed(plan, steps) ==
  IF steps = <<>> THEN <<>>
  ELSE executePlanChunks_Reversed(plan, Tail(steps))
       \o << StepProgressChunk(Head(steps).id),
              [type |-> "tool_call", callId |-> plan.id \o "_" \o Head(steps).id,
               toolName |-> Head(steps).toolName, args |-> Head(steps).args] >>

executePlanChunks(plan, steps) ==
  IF steps = <<>> THEN <<>>
  ELSE << StepProgressChunk(Head(steps).id),
          [type |-> "tool_call", callId |-> plan.id \o "_" \o Head(steps).id,
           toolName |-> Head(steps).toolName, args |-> Head(steps).args] >>
       \o executePlanChunks(plan, Tail(steps))

executePlan(request) ==
  Ok(executePlanChunks(request.planToApply, request.planToApply.steps), None, 0)

\* the model consulted before the approved plan is emitted
processApplyMode_ChatFirst(request, llm) ==
  IF llm.kind = "throws" THEN Thrown(llm.message, 1)
  ELSE IF request.planToApply # None
  THEN Ok(executePlanChunks(request.planToApply, request.planToApply.steps), None, 1)
  ELSE IF SomeParseThrows(CallItems(llm)) THEN Thrown("Unexpected token in JSON", 1)
  ELSE Ok( (IF llm.content # NoContent THEN <<TextChunk(llm.content)>> ELSE <<>>)
             \o ToolCallChunks(CallItems(llm)), None, 1 )

\* ChatService.processApplyMode
processApplyMode(request, llm) ==
  IF request.planToApply # None THEN executePlan(request)
  ELSE IF llm.kind = "throws" THEN Thrown(llm.message, 1)
  ELSE IF SomeParseThrows(CallItems(llm)) THEN Thrown("Unexpected token in JSON", 1)
  ELSE Ok( (IF llm.content # NoContent THEN <<TextChunk(llm.content)>> ELSE <<>>)
             \o ToolCallChunks(CallItems(llm)), None, 1 )

\* the model is enabled and its adapter can be constructed
ResolvesAdapter(e, cat, request) ==
  /\ getModelById(cat, request.modelId) # None
  /\ createProviderAdapter(e, getModelById(cat, request.modelId)) # None

\* ChatService.processChat
processChat(e, cat, request, llm, uuid) ==
  LET model == getModelById(cat, request.modelId)
  IN IF model = None THEN Fail("Model not found or not enabled", 0)
     ELSE IF createProviderAdapter(e, model) = None
     THEN Fail("Failed to create provider adapter", 0)
     ELSE LET r == IF request.mode = "plan" THEN processPlanMode(request, llm, uuid)
                   ELSE processApplyMode(request, llm)
          IN IF r.kind = "thrown" THEN Fail(r.error.str, r.chatCalls) ELSE r

\* ChatService.continueWithToolResults
continueWithToolResults(e, cat, request, toolResults, llm, uuid) ==
  LET model == getModelById(cat, request.modelId)
  IN IF model = None THEN Fail("Model not found", 0)
     ELSE IF createProviderAdapter(e, model) = None
     THEN Fail("Failed to create provider adapter", 0)
     ELSE IF llm.kind = "throws" THEN Rejected(llm.message, 1)
     ELSE
       LET plan == IF llm.content # NoContent /\ request.mode = "plan"
                   THEN extractPlanFromResponse(llm.content, uuid) ELSE None
           text == IF llm.content # NoContent THEN <<TextChunk(llm.content)>> ELSE <<>>
           final == IF llm.finishReason = "stop" /\ ~HasToolCalls(llm)
                    THEN << FinalChunk(IF llm.content # NoContent THEN llm.content
                                       ELSE Lit("Task completed."), <<>>) >>
                    ELSE <<>>
       IN IF plan # None
          THEN Ok(<< PlanChunk(plan),
                     FinalChunk(Lit("Plan generated successfully."),
                                StepDescriptions(plan)) >>, plan, 1)
          ELSE IF SomeParseThrows(CallItems(llm)) THEN Rejected("Unexpected token in JSON", 1)
          ELSE Ok(text \o ToolCallChunks(CallItems(llm)) \o final, None, 1)

(***************************************************************************)
(* Requests that reach the orchestrator (already validated by the route).  *)
(***************************************************************************)
StepPool == {NormalizeStep(rs, 0) : rs \in RawStepPool}

ApprovedPlans ==
  { [kind |-> "plan", id |-> "plan_7", description |-> "Quarterly report", steps |-> st] :
       st \in SeqsUpTo(StepPool, MaxSteps) }

ChatRequests ==
  { [modelId |-> m, mode |-> "plan", planToApply |-> None] : m \in RequestModelIds }
  \cup
  { [modelId |-> m, mode |-> "apply", planToApply |-> p] :
       m \in RequestModelIds, p \in {None} \cup ApprovedPlans }

ToolResultLists ==
  { <<>>,
    << [callId |-> "call_r", result |-> [success |-> TRUE]] >> }

ServerEnvs ==
  { [v \in EnvVars |-> "sk-key"],
    [v \in EnvVars |-> Unset],
    [v \in EnvVars |-> IF v = "OPENAI_API_KEY" THEN "" ELSE "sk-key"] }

serverVars == <<env, catalog, entry, srvReq, srvLlm, srvRes>>

ServerIdle ==
  /\ entry = "idle"
  /\ srvReq = None
  /\ srvLlm = None
  /\ srvRes = None

\* POST /chat: one call of chatService.processChat
ProcessChatAct ==
  /\ entry = "idle"
  /\ \E request \in ChatRequests :
       \E llm \in LlmOutcomes, uuid \in Uuids :
         LET res == processChat(env, catalog, request, llm, uuid)
         IN /\ srvReq' = request
            /\ srvLlm' = IF res.chatCalls = 0 THEN None ELSE llm
            /\ srvRes' = res
  /\ entry' = "processChat"
  /\ UNCHANGED <<env, catalog>>

\* POST /chat/continue: one call of chatService.continueWithToolResults
ContinueAct ==
  /\ entry = "idle"
  /\ \E request \in {r \in ChatRequests : r.planToApply = None} :
       \E toolResults \in ToolResultLists :
         \E llm \in LlmOutcomes, uuid \in Uuids :
           LET res == continueWithToolResults(env, catalog, request, toolResults, llm, uuid)
           IN /\ srvReq' = request
              /\ srvLlm' = IF res.chatCalls = 0 THEN None ELSE llm
              /\ srvRes' = res
  /\ entry' = "continueWithToolResults"
  /\ UNCHANGED <<env, catalog>>

\* the route has answered; the service is stateless between requests
ServerReturn ==
  /\ entry \in {"processChat", "continueWithToolResults"}
  /\ entry' = "idle"
  /\ srvReq' = None
  /\ srvLlm' = None
  /\ srvRes' = None
  /\ UNCHANGED <<env, catalog>>

(***************************************************************************)
(* Strings as JavaScript sees them: UTF-16 code units of the characters    *)
(* that occur in workbook, sheet and artifact names.                       *)
(***************************************************************************)
\* UTF-16 code units of the characters that occur in names, by code range
HexChars == "0123456789abcdef"

CodesOf(chars, first) ==
  [c \in {SubSeq(chars, i, i) : i \in 1..Len(chars)} |->
     first - 1 + (CHOOSE i \in 1..Len(chars) : SubSeq(chars, i, i) = c)]

CharCodes ==
  CodesOf(" ", 32) @@ CodesOf("()", 40) @@ CodesOf("-./0123456789:", 45)
    @@ CodesOf("ABCDEFGHIJKLMNOPQRSTUVWXYZ", 65) @@ CodesOf("_", 95)
    @@ CodesOf("abcdefghijklmnopqrstuvwxyz", 97) @@ CodesOf("|", 124)

\* str.charCodeAt(i), i from 1
charCodeAt(str, i) == CharCodes[SubSeq(str, i, i)]

\* a < b in the order of Array.prototype.sort() without comparator
RECURSIVE StrLess(_, _)
StrLess(a, b) ==
  IF b = "" THEN FALSE
  ELSE IF a = "" THEN TRUE
  ELSE IF charCodeAt(a, 1) # charCodeAt(b, 1) THEN charCodeAt(a, 1) < charCodeAt(b, 1)
  ELSE StrLess(Tail(a), Tail(b))

\* names.sort()
RECURSIVE SortNames(_)
SortNames(names) ==
  IF names = {} THEN <<>>
  ELSE LET least == CHOOSE n \in names : \A m \in names \ {n} : StrLess(n, m)
       IN <<least>> \o SortNames(names \ {least})

\* sheetNames.join('|')
RECURSIVE JoinNames(_)
JoinNames(seq) ==
  IF seq = <<>> THEN ""
  ELSE IF Len(seq) = 1 THEN seq[1]
  ELSE seq[1] \o "|" \o JoinNames(Tail(seq))

(***************************************************************************)
(* LedgerService.hashString: hash = ((hash << 5) - hash) + char, kept to   *)
(* 32 bits after every character, then Math.abs(hash).toString(16).  The   *)
(* 32-bit word is held as two 16-bit halves <<hi, lo>>.                    *)
(***************************************************************************)
Half == 65536

HashStep(h, code) ==
  LET lo == h[2] * 31 + code
      hi == h[1] * 31 + (lo \div Half)
  IN << hi % Half, lo % Half >>

RECURSIVE HashFold(_, _, _)
HashFold(h, str, i) ==
  IF i > Len(str) THEN h
  ELSE LET next == HashStep(h, charCodeAt(str, i))
       \* the test makes the word be computed before the next character is read
       IN IF next[1] >= 0 THEN HashFold(next, str, i + 1) ELSE next

\* Math.abs of the signed 32-bit value of the word
AbsWord(h) ==
  IF h[1] < Half \div 2 THEN h
  ELSE << (Half - 1 - h[1]) + (IF h[2] = 0 THEN 1 ELSE 0), (Half - h[2]) % Half >>

RECURSIVE HexOf(_)
HexOf(n) ==
  IF n < 16 THEN SubSeq(HexChars, n + 1, n + 1)
  ELSE HexOf(n \div 16) \o SubSeq(HexChars, (n % 16) + 1, (n % 16) + 1)

Hex4(n) ==
  LET d(k) == SubSeq(HexChars, ((n \div k) % 16) + 1, ((n \div k) % 16) + 1)
  IN d(4096) \o d(256) \o d(16) \o d(1)

\* Number.prototype.toString(16) of a non-negative word
WordToHex(h) == IF h[1] = 0 THEN HexOf(h[2]) ELSE HexOf(h[1]) \o Hex4(h[2])

hashString(str) == WordToHex(AbsWord(HashFold(<<0, 0>>, str, 1)))

\* LedgerService.generateUniqueName
RECURSIVE NextFreeName(_, _, _)
NextFreeName(baseName, existingNames, counter) ==
  LET newName == baseName \o " (" \o ToString(counter) \o ")"
  IN IF newName \in existingNames THEN NextFreeName(baseName, existingNames, counter + 1)
     ELSE newName

generateUniqueName_FromOne(baseName, existingNames) ==
  IF baseName \notin existingNames THEN baseName
  ELSE NextFreeName(baseName, existingNames, 1)

generateUniqueName(baseName, existingNames) ==
  IF baseName \notin existingNames THEN baseName
  ELSE NextFreeName(baseName, existingNames, 2)

(***************************************************************************)
(* The workbook behind Office.js: its name, its sheets, and the charts,    *)
(* tables, pivot tables and named ranges in it.  An Excel.run batch either *)
(* completes or throws.                                                    *)
(***************************************************************************)
Artifact(sheet, name) == [sheet |-> sheet, name |-> name]
NamesOn(artifacts, sheet) == {a.name : a \in {b \in artifacts : b.sheet = sheet}}
AllNames(artifacts) == {a.name : a \in artifacts}

\* ToolResult
ToolOk == [success |-> TRUE]
ToolCreated(artifactId) == [success |-> TRUE, artifactId |-> artifactId]
ToolAlreadyExists(artifactId) ==
  [success |-> TRUE, artifactId |-> artifactId, alreadyExists |-> TRUE]
ToolFailed(message) == [success |-> FALSE, error |-> message]

\* ExcelTools.createSheet
createSheet(wb, args) ==
  LET uniqueName == generateUniqueName(args.name, wb.sheets)
  IN [wb |-> [wb EXCEPT !.sheets = @ \cup {uniqueName}], result |-> ToolCreated(uniqueName)]

\* ExcelTools.ensureTable
ensureTable(wb, args) ==
  IF args.sheetName \notin wb.sheets
  THEN [wb |-> wb, result |-> ToolFailed("ItemNotFound")]
  ELSE IF args.tableName \in AllNames(wb.tables)
  THEN [wb |-> wb, result |-> ToolAlreadyExists(args.tableName)]
  ELSE LET uniqueName == generateUniqueName(args.tableName, AllNames(wb.tables))
       IN [wb |-> [wb EXCEPT !.tables = @ \cup {Artifact(args.sheetName, uniqueName)}],
           result |-> ToolCreated(uniqueName)]

\* ExcelTools.createChart
createChart(wb, args, now) ==
  IF args.sheetName \notin wb.sheets
  THEN [wb |-> wb, result |-> ToolFailed("ItemNotFound")]
  ELSE LET chartName == generateUniqueName(
                          IF Truthy(args, "title") THEN args.title
                          ELSE "Chart_" \o ToString(now),
                          NamesOn(wb.charts, args.sheetName))
       IN [wb |-> [wb EXCEPT !.charts = @ \cup {Artifact(args.sheetName, chartName)}],
           result |-> ToolCreated(chartName)]

\* ExcelTools.createPivotTable (worksheets.getItem of a missing sheet fails the batch)
createPivotTable(wb, args) ==
  IF args.destinationSheet \notin wb.sheets
  THEN [wb |-> wb, result |-> ToolFailed("ItemNotFound")]
  ELSE LET uniquePivotName == generateUniqueName(args.pivotName,
                                                 NamesOn(wb.pivots, args.destinationSheet))
       IN [wb |-> [wb EXCEPT !.pivots = @ \cup {Artifact(args.destinationSheet, uniquePivotName)}],
           result |-> ToolCreated(uniquePivotName)]

\* ExcelTools.addNamedRange
addNamedRange(wb, args) ==
  IF args.sheetName \notin wb.sheets
  THEN [wb |-> wb, result |-> ToolFailed("ItemNotFound")]
  ELSE LET uniqueName == generateUniqueName(args.name, wb.names)
       IN [wb |-> [wb EXCEPT !.names = @ \cup {uniqueName}], result |-> ToolCreated(uniqueName)]

\* ExcelTools.getRangeValues, writeRange, setFormula, formatRange: no artifact
rangeTool(wb, args) ==
  IF args.sheetName \notin wb.sheets
  THEN [wb |-> wb, result |-> ToolFailed("ItemNotFound")]
  ELSE [wb |-> wb, result |-> ToolOk]

ExcelToolNames ==
  {"getWorkbookSchema", "getRangeValues", "createSheet", "ensureTable", "writeRange",
   "setFormula", "createChart", "createPivotTable", "formatRange", "addNamedRange"}

\* excelTools[toolName](args); batchFails: the tool's Excel.run throws, which the
\* tool turns into {success:false}
toolFn(wb, toolName, args, now, batchFails) ==
  IF batchFails THEN [wb |-> wb, result |-> ToolFailed("Excel.run failed")]
  ELSE CASE toolName = "createSheet"       -> createSheet(wb, args)
         [] toolName = "ensureTable"       -> ensureTable(wb, args)
         [] toolName = "createChart"       -> createChart(wb, args, now)
         [] toolName = "createPivotTable"  -> createPivotTable(wb, args)
         [] toolName = "addNamedRange"     -> addNamedRange(wb, args)
         [] toolName = "getWorkbookSchema" -> [wb |-> wb, result |-> ToolOk]
         [] OTHER                          -> rangeTool(wb, args)

(***************************************************************************)
(* Idempotency ledger (LedgerService): the 'entries' object store, keyed   *)
(* by entry id.                                                            *)
(***************************************************************************)
\* LedgerService.getWorkbookFingerprint
getWorkbookFingerprint(wb) ==
  LET sheetNamesHash == hashString(JoinNames(SortNames(wb.sheets)))
  IN [workbookName |-> wb.name, sheetNamesHash |-> sheetNamesHash,
      computed |-> wb.name \o ":" \o sheetNamesHash]

\* LedgerService.recordEntry: db.put replaces an entry stored under the same id
NewEntry(e, now, rnd) ==
  [ id |-> e.actionType \o "_" \o ToString(now) \o "_" \o rnd,
    createdAt |-> now, lastVerifiedAt |-> now,
    workbookFingerprint |-> e.workbookFingerprint, actionType |-> e.actionType,
    normalizedArgs |-> e.normalizedArgs, artifactId |-> e.artifactId,
    artifactName |-> e.artifactName ]

recordEntry(store, e, now, rnd) ==
  {x \in store : x.id # NewEntry(e, now, rnd).id} \cup {NewEntry(e, now, rnd)}

\* db.getAllFromIndex('entries', 'by-fingerprint-action', [fingerprint, action]):
\* the entries of that key in primary-key (id) order
RECURSIVE SortById(_)
SortById(entries) ==
  IF entries = {} THEN <<>>
  ELSE LET first == CHOOSE e \in entries : \A f \in entries \ {e} : StrLess(e.id, f.id)
       IN <<first>> \o SortById(entries \ {first})

getAllFromIndex(store, fingerprint, actionType) ==
  SortById({e \in store : e.workbookFingerprint = fingerprint /\ e.actionType = actionType})

\* LedgerService.verifyEntry; readFails: the Excel.run of the verification throws
verifyEntry(wb, e, readFails) ==
  IF readFails THEN FALSE
  ELSE CASE e.actionType = "createSheet"      -> e.artifactName \in wb.sheets
         [] e.actionType = "createChart"      -> e.artifactName \in AllNames(wb.charts)
         [] e.actionType = "createPivotTable" -> e.artifactName \in AllNames(wb.pivots)
         [] e.actionType = "createTable"      -> e.artifactName \in AllNames(wb.tables)
         [] OTHER                             -> TRUE

\* a query field is used when it is present and not the empty string
EmptyText == [text |-> "empty"]
IsGiven(query, field) == field \in DOMAIN query /\ query[field] # ""
ArgsGiven(query) == "normalizedArgs" \in DOMAIN query /\ query.normalizedArgs # EmptyText

\* the lookup made without the filter on normalizedArgs
findEntry_IgnoresArgs(store, wb, query, readFails) ==
  LET entries == IF IsGiven(query, "workbookFingerprint") /\ IsGiven(query, "actionType")
                 THEN getAllFromIndex(store, query.workbookFingerprint, query.actionType)
                 ELSE <<>>
      matches == entries
  IN IF Len(matches) > 0
     THEN [exists |-> TRUE, entry |-> matches[1],
           verified |-> verifyEntry(wb, matches[1], readFails),
           needsRecreation |-> ~verifyEntry(wb, matches[1], readFails)]
     ELSE [exists |-> FALSE, verified |-> FALSE, needsRecreation |-> FALSE]

\* LedgerService.findEntry
findEntry(store, wb, query, readFails) ==
  LET entries == IF IsGiven(query, "workbookFingerprint") /\ IsGiven(query, "actionType")
                 THEN getAllFromIndex(store, query.workbookFingerprint, query.actionType)
                 ELSE <<>>
      matches == IF ArgsGiven(query)
                 THEN LET RECURSIVE keep(_)
                          keep(es) == IF es = <<>> THEN <<>>
                                      ELSE IF Head(es).normalizedArgs = query.normalizedArgs
                                      THEN <<Head(es)>> \o keep(Tail(es))
                                      ELSE keep(Tail(es))
                      IN keep(entries)
                 ELSE entries
  IN IF Len(matches) > 0
     THEN [exists |-> TRUE, entry |-> matches[1],
           verified |-> verifyEntry(wb, matches[1], readFails),
           needsRecreation |-> ~verifyEntry(wb, matches[1], readFails)]
     ELSE [exists |-> FALSE, verified |-> FALSE, needsRecreation |-> FALSE]

(***************************************************************************)
(* useChat.executeToolCall.  io names the Excel.run batch of this call     *)
(* that throws, if any: the fingerprint read before the lookup, the        *)
(* verification read, the tool's own batch, or the fingerprint read before *)
(* recording.  The result also tells whether the tool function was         *)
(* invoked and what the ledger lookup reported.                            *)
(***************************************************************************)
IoOutcomes == {"ok", "fingerprint", "verify", "tool", "record"}

LedgerGuardedTools == {"createSheet", "createChart", "createPivotTable", "ensureTable"}

NoLookup == [kind |-> "nolookup"]

Executed(wb, store, result, invoked, lookup) ==
  [wb |-> wb, ledger |-> store, result |-> result, invoked |-> invoked, lookup |-> lookup]

executeToolCall(wb, store, now, toolName, args, io, rnd) ==
  LET guarded  == toolName \in LedgerGuardedTools
      existing == IF guarded /\ io # "fingerprint"
                  THEN findEntry(store, wb,
                                 [workbookFingerprint |-> getWorkbookFingerprint(wb).computed,
                                  actionType |-> toolName,
                                  normalizedArgs |-> Stringify(args)],
                                 io = "verify")
                  ELSE NoLookup
      ran      == toolFn(wb, toolName, args, now, io = "tool")
  IN IF guarded /\ io = "fingerprint"
     THEN Executed(wb, store, ToolFailed("Excel.run failed"), FALSE, NoLookup)
     ELSE IF guarded /\ existing.verified
     THEN Executed(wb, store, ToolAlreadyExists(existing.entry.artifactId), FALSE, existing)
     ELSE IF toolName \notin ExcelToolNames
     THEN Executed(wb, store, ToolFailed("toolFn is not a function"), FALSE, existing)
     ELSE IF ran.result.success /\ Truthy(ran.result, "artifactId")
     THEN IF io = "record"
          THEN Executed(ran.wb, store, ToolFailed("Excel.run failed"), TRUE, existing)
          ELSE Executed(ran.wb,
                        recordEntry(store,
                          [workbookFingerprint |-> getWorkbookFingerprint(ran.wb).computed,
                           actionType |-> toolName,
                           normalizedArgs |-> Stringify(args),
                           artifactId |-> ran.result.artifactId,
                           artifactName |-> IF Truthy(args, "name") THEN args.name
                                            ELSE ran.result.artifactId],
                          now, rnd),
                        ran.result, TRUE, existing)
     ELSE Executed(ran.wb, store, ran.result, TRUE, existing)

(***************************************************************************)
(* The add-in side: the live workbook, the ledger store, the clock, and    *)
(* a record of the last executeToolCall / findEntry made.                  *)
(***************************************************************************)
MaxClock == 2

VARIABLES
  wb,         \* the live workbook
  ledger,     \* the entries store of the ledger
  now,        \* Date.now()
  lastExec,   \* the last executeToolCall: request, outcome, and whether it repeats
              \* the call before it
  quiet,      \* nobody but executeToolCall has changed the workbook since lastExec
  lastFind,   \* the last direct findEntry: query, readFails, result
  inFlight       \* the executeToolCall invocations in progress side by side

VARIABLES
  facModel,   \* the Model given to the last createProviderAdapter call
  facRes      \* what that call returned

EmptyWorkbook ==
  [name |-> "Book1", sheets |-> {"Sheet1"}, charts |-> {}, tables |-> {},
   pivots |-> {}, names |-> {}]

ArgsTable == [sheetName |-> "Sheet1", addressOrUsedRange |-> "usedRange", tableName |-> "T1"]
ArgsName  == [name |-> "Total", sheetName |-> "Sheet1", address |-> "B9"]

ToolRequests ==
  { [toolName |-> "createSheet",    args |-> ArgsQ1],
    [toolName |-> "createChart",    args |-> ArgsChart],
    [toolName |-> "ensureTable",    args |-> ArgsTable],
    [toolName |-> "addNamedRange",  args |-> ArgsName],
    [toolName |-> "getRangeValues", args |-> ArgsRead] }

\* Math.random().toString(36).substr(2, 9)
Randoms == {"k3x9q7c2m"}

LedgerIdle ==
  /\ wb = EmptyWorkbook
  /\ ledger = {}
  /\ now = 0
  /\ lastExec = None
  /\ quiet = TRUE
  /\ lastFind = None
  /\ inFlight = <<>>

ledgerVars == <<wb, ledger, now, lastExec, quiet, lastFind>>

\* what the lookup of an executeToolCall reported
LookupKind(lookup) ==
  IF lookup = NoLookup THEN "none"
  ELSE IF ~lookup.exists THEN "miss"
  ELSE IF lookup.verified THEN "verified" ELSE "stale"

\* one call of executeToolCall, with whatever the workbook I/O does; its awaited
\* batches take time, so the clock has moved on when it returns
ExecuteToolCallAct ==
  /\ now < MaxClock
  /\ \E req \in ToolRequests, io \in IoOutcomes, rnd \in Randoms :
       \E x \in {executeToolCall(wb, ledger, now, req.toolName, req.args, io, rnd)} :
          /\ wb' = x.wb
          /\ ledger' = x.ledger
          /\ lastExec' =
               [toolName |-> req.toolName, args |-> req.args, ioOk |-> (io = "ok"),
                success |-> x.result.success, invoked |-> x.invoked,
                created |-> x.invoked /\ x.result.success /\ Truthy(x.result, "artifactId"),
                lookup |-> LookupKind(x.lookup),
                repeats |-> /\ lastExec # None
                            /\ lastExec.toolName = req.toolName
                            /\ lastExec.args = req.args
                            /\ lastExec.created
                            /\ quiet]
  /\ now' = now + 1
  /\ quiet' = TRUE
  /\ lastFind' = None

\* a direct ledgerService.findEntry(query)
LedgerQueries(fingerprint) ==
  { [workbookFingerprint |-> f, actionType |-> a, normalizedArgs |-> n] :
      f \in {fingerprint, "Other.xlsx:0"},
      a \in {"createChart", "ensureTable"},
      n \in {Stringify(ArgsChart), Stringify(ArgsTable)} }
  \cup
  { [workbookFingerprint |-> fingerprint, actionType |-> a] :
      a \in {"createChart", "addNamedRange"} }
  \cup
  { [actionType |-> "createChart"], [workbookFingerprint |-> fingerprint] }

FindEntryAct ==
  /\ \E query \in LedgerQueries(getWorkbookFingerprint(wb).computed), readFails \in BOOLEAN :
       lastFind' = [query |-> query, readFails |-> readFails,
                    result |-> findEntry(ledger, wb, query, readFails)]
  /\ lastExec' = None
  /\ UNCHANGED <<wb, ledger, now, quiet>>

\* the user edits the workbook by hand: deletes a sheet with what is on it,
\* or a chart, table or named range
UserDeletes ==
  /\ \/ \E sh \in wb.sheets :
          /\ Cardinality(wb.sheets) > 1
          /\ wb' = [wb EXCEPT !.sheets = @ \ {sh},
                              !.charts = {c \in @ : c.sheet # sh},
                              !.tables = {t \in @ : t.sheet # sh},
                              !.pivots = {v \in @ : v.sheet # sh}]
     \/ \E c \in wb.charts : wb' = [wb EXCEPT !.charts = @ \ {c}]
     \/ \E t \in wb.tables : wb' = [wb EXCEPT !.tables = @ \ {t}]
     \/ \E n \in wb.names  : wb' = [wb EXCEPT !.names = @ \ {n}]
  /\ quiet' = FALSE
  /\ lastFind' = None
  /\ UNCHANGED <<ledger, now, lastExec>>

(***************************************************************************)
(* Two executeToolCall invocations in progress at once.  An invocation     *)
(* gives way to the other at each of its awaits: after the fingerprint     *)
(* read, the ledger lookup, the tool, the second fingerprint read and the  *)
(* recording.  Every Excel.run batch succeeds here.                        *)
(***************************************************************************)
Invocation(req) ==
  [toolName |-> req.toolName, args |-> req.args, at |-> "start", fingerprint |-> "",
   result |-> None, invoked |-> FALSE]

\* the part of executeToolCall between two awaits of invocation i
executeToolCallStep(i) ==
  LET c == inFlight[i]
      query == [workbookFingerprint |-> c.fingerprint, actionType |-> c.toolName,
                normalizedArgs |-> Stringify(c.args)]
  IN CASE c.at = "start" ->
            /\ inFlight' = [inFlight EXCEPT ![i] =
                           IF c.toolName \in LedgerGuardedTools
                           THEN [c EXCEPT !.at = "find",
                                          !.fingerprint = getWorkbookFingerprint(wb).computed]
                           ELSE [c EXCEPT !.at = "tool"]]
            /\ UNCHANGED <<wb, ledger>>
       [] c.at = "find" ->
            \E existing \in {findEntry(ledger, wb, query, FALSE)} :
               /\ inFlight' = [inFlight EXCEPT ![i] =
                              IF existing.verified
                              THEN [c EXCEPT !.at = "done",
                                             !.result = ToolAlreadyExists(existing.entry.artifactId)]
                              ELSE [c EXCEPT !.at = "tool"]]
               /\ UNCHANGED <<wb, ledger>>
       [] c.at = "tool" ->
            \E ran \in {toolFn(wb, c.toolName, c.args, now, FALSE)} :
               /\ wb' = ran.wb
               /\ inFlight' = [inFlight EXCEPT ![i] =
                              [c EXCEPT !.result = ran.result, !.invoked = TRUE,
                                        !.at = IF ran.result.success
                                                  /\ Truthy(ran.result, "artifactId")
                                               THEN "fingerprint" ELSE "done"]]
               /\ UNCHANGED ledger
       [] c.at = "fingerprint" ->
            /\ inFlight' = [inFlight EXCEPT ![i] =
                           [c EXCEPT !.at = "record",
                                     !.fingerprint = getWorkbookFingerprint(wb).computed]]
            /\ UNCHANGED <<wb, ledger>>
       [] c.at = "record" ->
            /\ ledger' = recordEntry(ledger,
                            [workbookFingerprint |-> c.fingerprint,
                             actionType |-> c.toolName,
                             normalizedArgs |-> Stringify(c.args),
                             artifactId |-> c.result.artifactId,
                             artifactName |-> IF Truthy(c.args, "name") THEN c.args.name
                                              ELSE c.result.artifactId],
                            now, CHOOSE rnd \in Randoms : TRUE)
            /\ inFlight' = [inFlight EXCEPT ![i] = [c EXCEPT !.at = "done"]]
            /\ UNCHANGED wb

FirstCallSteps ==
  /\ inFlight[1].at # "done"
  /\ executeToolCallStep(1)
  /\ now' = now + 1
  /\ UNCHANGED <<lastExec, quiet, lastFind>>

SecondCallSteps ==
  /\ inFlight[2].at # "done"
  /\ executeToolCallStep(2)
  /\ now' = now + 1
  /\ UNCHANGED <<lastExec, quiet, lastFind>>

(***************************************************************************)
(* The chat hook of the add-in (useChat): sendMessage, processResponse     *)
(* with its continuation loop, approvePlan, cancelPlan.                    *)
(***************************************************************************)
MaxAddinClock == 3

VARIABLES
  pc,            \* where the hook is: idle, processing a response, or continuing
  pending,       \* the chunks of the response being processed
  toolResults,   \* the tool results collected for the continuation request
  currentPlan,   \* the plan awaiting approval
  turnModel,     \* modelId of the turn in progress
  unapproved,    \* tool names given to executeToolCall by processResponse
  approvedRuns,  \* tool names given to executeToolCall by approvePlan
  lastRun        \* what the approvePlan that has just returned did, step by step

addinVars == <<pc, pending, toolResults, currentPlan, turnModel, unapproved, approvedRuns,
               lastRun>>

AddinIdle ==
  /\ pc = "idle"
  /\ pending = <<>>
  /\ toolResults = <<>>
  /\ currentPlan = None
  /\ turnModel = ""
  /\ unapproved = {}
  /\ approvedRuns = {}
  /\ lastRun = None

\* what the model may answer in the add-in scenarios
AddinPlanText ==
  [kind |-> "text",
   parsed |-> [kind |-> "object",
               plan |-> [kind |-> "rawplan", header |-> [kind |-> "noheader"],
                         steps |-> << CHOOSE r \in RawStepPool : "id" \in DOMAIN r,
                                      CHOOSE r \in RawStepPool : "id" \notin DOMAIN r >>]]]
AddinProse == [kind |-> "text", parsed |-> [kind |-> "nojson"]]

AddinCalls(name) == CHOOSE tc \in ToolCallPool : tc.name = name /\ ~ParseThrows(tc.arguments)

\* a second read of the same response, under a call id of its own
AddinSecondRead == [AddinCalls("getRangeValues") EXCEPT !.id = "call_s"]

AddinLlmOutcomes ==
  {LlmThrows} \cup
  { [kind |-> "response", content |-> c, toolCalls |-> t, finishReason |-> f] :
      c \in {NoContent, AddinProse, AddinPlanText},
      t \in {NoToolCalls} \cup
            {[kind |-> "array", items |-> tc] :
               tc \in { <<AddinCalls("getRangeValues")>>,
                        <<AddinCalls("createChart")>>,
                        <<AddinCalls("getRangeValues"), AddinCalls("createChart")>>,
                        <<AddinCalls("getRangeValues"), AddinSecondRead>>,
                        <<AddinCalls("deleteWorkbook")>> }},
      f \in {"stop", "tool_calls"} }

AddinModelIds == {"gpt-4o", "mistral-large"}

PlanModeRequest(modelId) == [modelId |-> modelId, mode |-> "plan", planToApply |-> None]

RECURSIVE ToolCallsOf(_)
ToolCallsOf(chunks) ==
  IF chunks = <<>> THEN <<>>
  ELSE IF Head(chunks).type = "tool_call" THEN <<Head(chunks)>> \o ToolCallsOf(Tail(chunks))
  ELSE ToolCallsOf(Tail(chunks))

AfterToolCall_Prepends(st, chunk, x) ==
  [st EXCEPT !.wb = x.wb, !.ledger = x.ledger, !.now = @ + 1,
             !.results = <<[callId |-> chunk.callId, result |-> x.result]>> \o @,
             !.ran = @ \cup {chunk.toolName}]

\* case 'tool_call' of processResponse: x is what executeToolCall did
AfterToolCall(st, chunk, x) ==
  [st EXCEPT !.wb = x.wb, !.ledger = x.ledger, !.now = @ + 1,
             !.results = Append(@, [callId |-> chunk.callId, result |-> x.result]),
             !.ran = @ \cup {chunk.toolName}]

\* the body of the for-loop of processResponse: a tool_call chunk is executed,
\* a plan chunk sets the current plan
ChunkEffect(st, chunk, ios, rnd) ==
  IF chunk.type = "tool_call"
  THEN AfterToolCall(st, chunk,
                     executeToolCall(st.wb, st.ledger, st.now, chunk.toolName,
                                     chunk.args, ios[1 + Len(st.results)], rnd))
  ELSE IF chunk.type = "plan" THEN [st EXCEPT !.plan = chunk.plan]
  ELSE st

\* the for-loop of processResponse over the chunks, one after the other
RECURSIVE RunChunks(_, _, _, _)
RunChunks(chunks, st, ios, rnd) ==
  IF chunks = <<>> THEN st
  ELSE RunChunks(Tail(chunks), ChunkEffect(st, Head(chunks), ios, rnd), ios, rnd)

\* useChat.sendMessage up to the answer of POST /chat.  A failed request ends
\* the turn in the catch block.  The setCurrentPlan(response.plan) that follows
\* processResponse stores the plan the plan chunk has already stored.
SendMessage ==
  /\ pc = "idle"
  /\ now < MaxAddinClock
  /\ \E modelId \in AddinModelIds, llm \in AddinLlmOutcomes, uuid \in Uuids :
       LET res == processChat(env, catalog, PlanModeRequest(modelId), llm, uuid)
       IN /\ turnModel' = modelId
          /\ IF res.kind = "value" /\ res.success
             THEN /\ pending' = res.response.items
                  /\ pc' = "processing"
             ELSE /\ pending' = <<>>
                  /\ pc' = "idle"
  /\ toolResults' = <<>>
  /\ lastRun' = None
  /\ UNCHANGED <<currentPlan, unapproved, approvedRuns, wb, ledger, now>>

\* useChat.processResponse up to its continuation request; the continuation
\* loop is cut off when the clock reaches MaxAddinClock
ProcessResponse ==
  /\ pc = "processing"
  /\ \E ios \in [1..Len(ToolCallsOf(pending)) -> IoOutcomes], rnd \in Randoms :
       \E st \in {RunChunks(pending,
                            [wb |-> wb, ledger |-> ledger, now |-> now, results |-> <<>>,
                             ran |-> {}, plan |-> currentPlan],
                            ios, rnd)} :
          /\ wb' = st.wb
          /\ ledger' = st.ledger
          /\ now' = st.now
          /\ currentPlan' = st.plan
          /\ unapproved' = unapproved \cup st.ran
          /\ toolResults' = st.results
          /\ pc' = IF Len(st.results) > 0 /\ st.now < MaxAddinClock
                   THEN "continuing" ELSE "idle"
  /\ pending' = <<>>
  /\ lastRun' = None
  /\ UNCHANGED <<turnModel, approvedRuns>>

\* apiService.continueChat(.., toolResults) and the answer of POST /chat/continue
ContinueChat ==
  /\ pc = "continuing"
  /\ \E llm \in AddinLlmOutcomes, uuid \in Uuids :
       LET res == continueWithToolResults(env, catalog, PlanModeRequest(turnModel),
                                          toolResults, llm, uuid)
       IN IF res.kind = "value" /\ res.success
          THEN /\ pending' = res.response.items
               /\ pc' = "processing"
          ELSE /\ pending' = <<>>
               /\ pc' = "idle"
  /\ toolResults' = <<>>
  /\ lastRun' = None
  /\ UNCHANGED <<currentPlan, turnModel, unapproved, approvedRuns, wb, ledger, now>>

AfterStep_IgnoresFailure(st, step, x) ==
  [st EXCEPT !.wb = x.wb, !.ledger = x.ledger, !.now = @ + 1, !.done = @ + 1,
             !.ran = @ \cup {step.toolName}, !.failed = FALSE,
             !.log = Append(@, [step |-> step, success |-> x.result.success,
                                invoked |-> x.invoked, startedAt |-> st.now,
                                before |-> [wb |-> st.wb, ledger |-> st.ledger],
                                after |-> [wb |-> x.wb, ledger |-> x.ledger]])]

\* one step of approvePlan: x is what executeToolCall did.  The log keeps, per
\* executed step, the workbook and ledger it started on and left behind.
AfterStep(st, step, x) ==
  [st EXCEPT !.wb = x.wb, !.ledger = x.ledger, !.now = @ + 1, !.done = @ + 1,
             !.ran = @ \cup {step.toolName}, !.failed = ~x.result.success,
             !.log = Append(@, [step |-> step, success |-> x.result.success,
                                invoked |-> x.invoked, startedAt |-> st.now,
                                before |-> [wb |-> st.wb, ledger |-> st.ledger],
                                after |-> [wb |-> x.wb, ledger |-> x.ledger]])]

\* the steps of approvePlan: each is executed after the one before it, and the
\* first failure stops the loop
RECURSIVE RunSteps(_, _, _, _)
RunSteps(steps, st, ios, rnd) ==
  IF steps = <<>> \/ st.failed THEN st
  ELSE RunSteps(Tail(steps),
                AfterStep(st, Head(steps),
                          executeToolCall(st.wb, st.ledger, st.now, Head(steps).toolName,
                                          Head(steps).args, ios[1 + st.done], rnd)),
                ios, rnd)

\* useChat.approvePlan
ApprovePlan ==
  /\ pc = "idle"
  /\ currentPlan # None
  /\ now < MaxAddinClock
  /\ \E ios \in [1..Len(currentPlan.steps) -> IoOutcomes], rnd \in Randoms :
       \E st \in {RunSteps(currentPlan.steps,
                           [wb |-> wb, ledger |-> ledger, now |-> now, done |-> 0,
                            ran |-> {}, failed |-> FALSE, log |-> <<>>],
                           ios, rnd)} :
          /\ wb' = st.wb
          /\ ledger' = st.ledger
          /\ now' = st.now
          /\ approvedRuns' = approvedRuns \cup st.ran
          /\ lastRun' = [steps |-> currentPlan.steps, log |-> st.log, ios |-> ios,
                         before |-> [wb |-> wb, ledger |-> ledger]]
          /\ currentPlan' = IF st.failed THEN currentPlan ELSE None
  /\ UNCHANGED <<pc, pending, toolResults, turnModel, unapproved>>

\* the plans applied more than once: one or two steps that create a sheet, a
\* second sheet or a chart
ArgsQ2 == [name |-> "Q2"]

ReapplySteps ==
  { NormalizeStep([toolName |-> r.toolName, args |-> r.args], 0) :
      r \in { [toolName |-> "createSheet", args |-> ArgsQ1],
              [toolName |-> "createSheet", args |-> ArgsQ2],
              [toolName |-> "createChart", args |-> ArgsChart] } }

ReapplyPlans ==
  { [kind |-> "plan", id |-> "plan_7", description |-> "Quarterly report", steps |-> st] :
      st \in SeqsUpTo(ReapplySteps, 2) \ {<<>>} }

\* the plan that has just been applied is the current plan again: the model has
\* proposed it once more (setCurrentPlan(plan) of processResponse)
ProposeAgain ==
  /\ pc = "idle"
  /\ currentPlan = None
  /\ lastRun # None
  /\ \E plan \in ReapplyPlans :
       /\ plan.steps = lastRun.steps
       /\ currentPlan' = plan
  /\ UNCHANGED <<pc, pending, toolResults, turnModel, unapproved, approvedRuns, lastRun,
                 wb, ledger, now>>

\* useChat.cancelPlan
CancelPlan ==
  /\ currentPlan # None
  /\ currentPlan' = None
  /\ lastRun' = None
  /\ UNCHANGED <<pc, pending, toolResults, turnModel, unapproved, approvedRuns,
                 wb, ledger, now>>

(***************************************************************************)
(* Adapter factory, called directly.                                       *)
(***************************************************************************)
FactoryModels ==
  { [id |-> "m1", provider |-> p, enabled |-> TRUE] :
      p \in Providers \cup {"mistral", "OpenAI"} }

AllEnvs == [EnvVars -> EnvValues]

FactoryIdle ==
  /\ facModel = None
  /\ facRes = None

factoryVars == <<facModel, facRes>>

CreateProviderAdapterAct ==
  /\ \E model \in FactoryModels :
       /\ facModel' = model
       /\ facRes' = createProviderAdapter(env, model)
  /\ UNCHANGED env

(***************************************************************************)
(* Streaming adapters (OpenAIAdapter.streamChat, AnthropicAdapter          *)
(* .streamChat).  The provider sends, for every tool call of the stream,   *)
(* the fragments of its argument text in order; the adapter accumulates    *)
(* them and yields chunks.  JSON texts are strings here, and JSON.parse is *)
(* the table of the texts that occur.                                      *)
(***************************************************************************)
MaxStreamCalls == 2
MaxTextDeltas == 1

\* the JSON texts of the model and the values they denote
JsonTable ==
  [t \in {"{\"a\":1}", "{\"b\":2}"} |->
     IF t = "{\"a\":1}" THEN [a |-> 1] ELSE [b |-> 2]]

\* JSON.parse(text) throws / returns
ParseFails(text) == text \notin DOMAIN JsonTable
ParseText(text) == JsonTable[text]

\* the argument text of one tool call as the provider cuts it into fragments:
\* two valid payloads and one that is cut off before its closing brace
StreamScripts ==
  { <<"{\"a\":", "1}">>, <<"{\"b\":2}">>, <<"{\"a\":", "1">> }

StreamToolNames == <<"getRangeValues", "createChart", "createSheet">>

VARIABLES
  strmProvider,      \* whose streamChat is running
  strmPhase,         \* idle, open (events arriving), done
  strmScripts,       \* per tool call of the stream, the fragments to come
  strmCalls,         \* what the provider has sent so far for each tool call
  strmArrivals,      \* the calls whose fragments arrived, in arrival order
  strmOpen,          \* Anthropic: kind of the content block that is open
  currentToolCalls,  \* OpenAI: the Map index -> {id, name, arguments}, insertion order
  currentToolUse,    \* Anthropic: the tool_use block being accumulated, or null
  strmOut            \* the chunks yielded so far

streamVars == <<strmProvider, strmPhase, strmScripts, strmCalls, strmArrivals, strmOpen,
                currentToolCalls, currentToolUse, strmOut>>

StreamIdle ==
  /\ strmProvider = "none"
  /\ strmPhase = "idle"
  /\ strmScripts = <<>>
  /\ strmCalls = <<>>
  /\ strmArrivals = <<>>
  /\ strmOpen = "none"
  /\ currentToolCalls = <<>>
  /\ currentToolUse = None
  /\ strmOut = <<>>

FinalizeToolCall_Unrecoverable(id, name, text, what) ==
  IF ParseFails(text)
  THEN [type |-> "error", error |-> "Failed to parse " \o what, recoverable |-> FALSE]
  ELSE [type |-> "tool_call", callId |-> id, toolName |-> name, args |-> ParseText(text)]

\* try { args = JSON.parse(text); yield tool_call } catch { yield error }
FinalizeToolCall(id, name, text, what) ==
  IF ParseFails(text)
  THEN [type |-> "error", error |-> "Failed to parse " \o what, recoverable |-> TRUE]
  ELSE [type |-> "tool_call", callId |-> id, toolName |-> name, args |-> ParseText(text)]

ApplyToolCallDelta_Prepends(calls, d) ==
  LET known == \E i \in 1..Len(calls) : calls[i].index = d.index
      withEntry == IF known THEN calls
                   ELSE Append(calls, [index |-> d.index, id |-> d.id, name |-> d.name,
                                       arguments |-> ""])
  IN [i \in 1..Len(withEntry) |->
        IF withEntry[i].index # d.index THEN withEntry[i]
        ELSE [withEntry[i] EXCEPT
                !.id = IF d.id # "" THEN d.id ELSE @,
                !.name = IF d.name # "" THEN d.name ELSE @,
                !.arguments = IF d.arguments # "" THEN d.arguments \o @ ELSE @]]

\* OpenAI: one element of delta.tool_calls applied to the map; an absent id,
\* name or arguments is the empty string, which the code treats alike
ApplyToolCallDelta(calls, d) ==
  LET known == \E i \in 1..Len(calls) : calls[i].index = d.index
      withEntry == IF known THEN calls
                   ELSE Append(calls, [index |-> d.index, id |-> d.id, name |-> d.name,
                                       arguments |-> ""])
  IN [i \in 1..Len(withEntry) |->
        IF withEntry[i].index # d.index THEN withEntry[i]
        ELSE [withEntry[i] EXCEPT
                !.id = IF d.id # "" THEN d.id ELSE @,
                !.name = IF d.name # "" THEN d.name ELSE @,
                !.arguments = IF d.arguments # "" THEN @ \o d.arguments ELSE @]]

\* OpenAI: the body of the for-await loop for one chunk of the stream
\* {content, tool_calls: <<delta>>, finish_reason}
OpenAIStreamChunk(calls, out, chunk) ==
  LET text == IF chunk.content # "" THEN <<[type |-> "text", content |-> chunk.content]>>
              ELSE <<>>
      RECURSIVE applyAll(_, _)
      applyAll(cs, ds) == IF ds = <<>> THEN cs
                          ELSE applyAll(ApplyToolCallDelta(cs, Head(ds)), Tail(ds))
      after == applyAll(calls, chunk.tool_calls)
      finals == IF chunk.finish_reason = "tool_calls"
                THEN [i \in 1..Len(after) |->
                        FinalizeToolCall(after[i].id, after[i].name, after[i].arguments,
                                         "tool call arguments")]
                ELSE <<>>
  IN [calls |-> after, out |-> out \o text \o finals]

\* Anthropic: the body of the for-await loop for one event of the stream
AnthropicStreamEvent(use, out, event) ==
  CASE event.type = "content_block_start" ->
         [use |-> IF event.block = "tool_use"
                  THEN [id |-> event.id, name |-> event.name, input |-> ""]
                  ELSE use,
          out |-> out]
    [] event.type = "content_block_delta" ->
         IF event.delta = "text_delta"
         THEN [use |-> use, out |-> Append(out, [type |-> "text", content |-> event.text])]
         ELSE IF event.delta = "input_json_delta" /\ use # None
         THEN [use |-> [use EXCEPT !.input = @ \o event.partial_json], out |-> out]
         ELSE [use |-> use, out |-> out]
    [] event.type = "content_block_stop" ->
         IF use # None
         THEN [use |-> None,
               out |-> Append(out, FinalizeToolCall(use.id, use.name, use.input,
                                                    "tool input"))]
         ELSE [use |-> use, out |-> out]
    [] OTHER -> [use |-> use, out |-> out]

\* how many fragments of call k the provider has sent
SentOf(k) == IF k <= Len(strmCalls) THEN Len(strmCalls[k].frags) ELSE 0

TextChunksOut == Len(SelectSeq(strmOut, LAMBDA c : c.type = "text"))

\* streamChat is called: the provider is about to stream up to MaxStreamCalls calls
StartStream ==
  /\ strmPhase = "idle"
  /\ strmProvider' \in {"openai", "anthropic"}
  /\ strmScripts' \in SeqsUpTo(StreamScripts, MaxStreamCalls)
  /\ strmPhase' = "open"
  /\ UNCHANGED <<strmCalls, strmArrivals, strmOpen, currentToolCalls, currentToolUse, strmOut>>

\* OpenAI: a chunk with a text delta arrives
OpenAITextDelta ==
  /\ strmPhase = "open" /\ strmProvider = "openai"
  /\ TextChunksOut < MaxTextDeltas
  /\ \E r \in {OpenAIStreamChunk(currentToolCalls, strmOut,
                                 [content |-> "Sure.", tool_calls |-> <<>>,
                                  finish_reason |-> "null"])} :
       /\ currentToolCalls' = r.calls
       /\ strmOut' = r.out
  /\ UNCHANGED <<strmProvider, strmPhase, strmScripts, strmCalls, strmArrivals, strmOpen,
                 currentToolUse>>

\* OpenAI: a chunk with the next fragment of call k arrives; the calls of a
\* stream may take turns.  The first delta of a call carries its id and name.
OpenAIToolCallDelta ==
  /\ strmPhase = "open" /\ strmProvider = "openai"
  /\ \E k \in 1..Len(strmScripts) :
       /\ SentOf(k) < Len(strmScripts[k])
       /\ (k > 1 => SentOf(k - 1) > 0)
       /\ LET first == k > Len(strmCalls)
              frag  == strmScripts[k][SentOf(k) + 1]
              delta == [index |-> k - 1,
                        id |-> IF first THEN "call_" \o ToString(k - 1) ELSE "",
                        name |-> IF first THEN StreamToolNames[k] ELSE "",
                        arguments |-> frag]
          IN /\ strmCalls' =
                  IF first
                  THEN Append(strmCalls, [id |-> delta.id, name |-> delta.name,
                                          frags |-> <<frag>>, closed |-> FALSE])
                  ELSE [strmCalls EXCEPT ![k].frags = Append(@, frag)]
             /\ strmArrivals' = Append(strmArrivals, k)
             /\ \E r \in {OpenAIStreamChunk(currentToolCalls, strmOut,
                                            [content |-> "", tool_calls |-> <<delta>>,
                                             finish_reason |-> "null"])} :
                  /\ currentToolCalls' = r.calls
                  /\ strmOut' = r.out
  /\ UNCHANGED <<strmProvider, strmPhase, strmScripts, strmOpen, currentToolUse>>

\* OpenAI: the last chunk arrives, with the finish reason: tool_calls once every
\* call is complete, stop when the stream holds no call, length at any point
OpenAIFinish ==
  /\ strmPhase = "open" /\ strmProvider = "openai"
  /\ \E reason \in {"tool_calls", "stop", "length"} :
       /\ reason = "tool_calls" =>
            (Len(strmScripts) > 0 /\ \A k \in 1..Len(strmScripts) :
                                         SentOf(k) = Len(strmScripts[k]))
       /\ reason = "stop" => Len(strmScripts) = 0
       /\ strmCalls' = IF reason = "tool_calls"
                       THEN [k \in 1..Len(strmCalls) |-> [strmCalls[k] EXCEPT !.closed = TRUE]]
                       ELSE strmCalls
       /\ \E r \in {OpenAIStreamChunk(currentToolCalls, strmOut,
                                      [content |-> "", tool_calls |-> <<>>,
                                       finish_reason |-> reason])} :
            /\ currentToolCalls' = r.calls
            /\ strmOut' = r.out
  /\ strmPhase' = "done"
  /\ UNCHANGED <<strmProvider, strmScripts, strmArrivals, strmOpen, currentToolUse>>

\* the for-await loop of AnthropicAdapter.streamChat takes one event
AnthropicTakes(event) ==
  \E r \in {AnthropicStreamEvent(currentToolUse, strmOut, event)} :
     /\ currentToolUse' = r.use
     /\ strmOut' = r.out

\* Anthropic: a content block opens; blocks come one after the other
AnthropicBlockStart ==
  /\ strmPhase = "open" /\ strmProvider = "anthropic"
  /\ strmOpen = "none"
  /\ \/ /\ Len(strmCalls) < Len(strmScripts)
        /\ LET k == Len(strmCalls) + 1
           IN /\ strmCalls' = Append(strmCalls,
                                     [id |-> "toolu_" \o ToString(k), name |-> StreamToolNames[k],
                                      frags |-> <<>>, closed |-> FALSE])
              /\ AnthropicTakes([type |-> "content_block_start", block |-> "tool_use",
                                 id |-> "toolu_" \o ToString(k), name |-> StreamToolNames[k]])
        /\ strmOpen' = "tool_use"
     \/ /\ TextChunksOut < MaxTextDeltas
        /\ AnthropicTakes([type |-> "content_block_start", block |-> "text"])
        /\ strmOpen' = "text"
        /\ UNCHANGED strmCalls
  /\ UNCHANGED <<strmProvider, strmPhase, strmScripts, strmArrivals, currentToolCalls>>

\* Anthropic: a delta of the open block arrives
AnthropicBlockDelta ==
  /\ strmPhase = "open" /\ strmProvider = "anthropic"
  /\ \/ /\ strmOpen = "text"
        /\ TextChunksOut < MaxTextDeltas
        /\ AnthropicTakes([type |-> "content_block_delta", delta |-> "text_delta",
                           text |-> "Sure."])
        /\ UNCHANGED <<strmCalls, strmArrivals>>
     \/ /\ strmOpen = "tool_use"
        /\ LET k == Len(strmCalls)
           IN /\ SentOf(k) < Len(strmScripts[k])
              /\ strmCalls' = [strmCalls EXCEPT
                                 ![k].frags = Append(@, strmScripts[k][SentOf(k) + 1])]
              /\ strmArrivals' = Append(strmArrivals, k)
              /\ AnthropicTakes([type |-> "content_block_delta", delta |-> "input_json_delta",
                                 partial_json |-> strmScripts[k][SentOf(k) + 1]])
  /\ UNCHANGED <<strmProvider, strmPhase, strmScripts, strmOpen, currentToolCalls>>

\* Anthropic: the open block closes
AnthropicBlockStop ==
  /\ strmPhase = "open" /\ strmProvider = "anthropic"
  /\ strmOpen # "none"
  /\ strmCalls' = IF strmOpen = "tool_use"
                  THEN [strmCalls EXCEPT ![Len(strmCalls)].closed = TRUE]
                  ELSE strmCalls
  /\ AnthropicTakes([type |-> "content_block_stop"])
  /\ strmOpen' = "none"
  /\ UNCHANGED <<strmProvider, strmPhase, strmScripts, strmArrivals, currentToolCalls>>

\* Anthropic: message_stop ends the stream
AnthropicMessageStop ==
  /\ strmPhase = "open" /\ strmProvider = "anthropic"
  /\ strmOpen = "none"
  /\ AnthropicTakes([type |-> "message_stop"])
  /\ strmPhase' = "done"
  /\ UNCHANGED <<strmProvider, strmScripts, strmCalls, strmArrivals, strmOpen,
                 currentToolCalls>>

(***************************************************************************)
(* The adapters' pure functions: message conversion and finish reasons.    *)
(***************************************************************************)
MaxMessages == 2

VARIABLES
  fnCall,    \* the function under study and its arguments, or None
  fnResult   \* what it returned

fnVars == <<fnCall, fnResult>>

FnIdle == fnCall = None /\ fnResult = None

\* ProviderMessage values: name is optional ("undefined" when absent); the
\* tool messages are the ones continueWithToolResults builds, plus named ones
ToolMessages ==
  [role : {"tool"}, content : DOMAIN JsonTable, toolCallId : {"call_0", "toolu_1"},
   name : {"undefined", "getRangeValues"}]

ProviderMessages ==
  {[role |-> "system", content |-> "You are an Excel assistant."],
   [role |-> "user", content |-> "Sum column B"],
   [role |-> "assistant", content |-> "Reading the range."]} \cup ToolMessages

\* OpenAIAdapter.convertMessages: messages.map(..)
OpenAIConvertMessages(messages) ==
  [system |-> None,
   messages |->
     [i \in 1..Len(messages) |->
        LET msg == messages[i]
        IN IF msg.role = "tool"
           THEN [role |-> "tool", content |-> msg.content, tool_call_id |-> msg.toolCallId]
           ELSE [role |-> msg.role, content |-> msg.content]]]

\* AnthropicAdapter.convertMessages: the loop over messages; a MessageParam's
\* content is a string or an array of blocks
RECURSIVE AnthropicConvertMessages(_)
AnthropicConvertMessages(messages) ==
  IF messages = <<>> THEN [system |-> "", messages |-> <<>>]
  ELSE LET msg == messages[Len(messages)]
           before == AnthropicConvertMessages(SubSeq(messages, 1, Len(messages) - 1))
       IN CASE msg.role = "system" -> [before EXCEPT !.system = msg.content]
            [] msg.role = "user" ->
                 [before EXCEPT !.messages =
                    Append(@, [role |-> "user",
                               content |-> [kind |-> "string", value |-> msg.content]])]
            [] msg.role = "assistant" ->
                 [before EXCEPT !.messages =
                    Append(@, [role |-> "assistant",
                               content |->
                                 [kind |-> "array",
                                  items |-> IF msg.content # ""
                                            THEN <<[type |-> "text", text |-> msg.content]>>
                                            ELSE <<>>]])]
            [] msg.role = "tool" ->
                 [before EXCEPT !.messages =
                    Append(@, [role |-> "user",
                               content |->
                                 [kind |-> "array",
                                  items |-> <<[type |-> "tool_result",
                                               tool_use_id |-> msg.toolCallId,
                                               content |-> msg.content]>>]])]

\* GoogleAdapter.convertMessages: the loop over messages
RECURSIVE GoogleConvertMessages(_)
GoogleConvertMessages(messages) ==
  IF messages = <<>> THEN [system |-> "", messages |-> <<>>]
  ELSE LET msg == messages[Len(messages)]
           before == GoogleConvertMessages(SubSeq(messages, 1, Len(messages) - 1))
       IN CASE msg.role = "system" -> [before EXCEPT !.system = msg.content]
            [] msg.role = "user" ->
                 [before EXCEPT !.messages =
                    Append(@, [role |-> "user", parts |-> <<[text |-> msg.content]>>])]
            [] msg.role = "assistant" ->
                 [before EXCEPT !.messages =
                    Append(@, [role |-> "model",
                               parts |-> IF msg.content # ""
                                         THEN <<[text |-> msg.content]>> ELSE <<>>])]
            [] msg.role = "tool" ->
                 [before EXCEPT !.messages =
                    Append(@, [role |-> "user",
                               parts |-> <<[functionResponse |->
                                              [name |-> msg.name,
                                               response |-> ParseText(msg.content)]]>>])]

convertMessages(provider, messages) ==
  CASE provider = "openai" -> OpenAIConvertMessages(messages)
    [] provider = "anthropic" -> AnthropicConvertMessages(messages)
    [] provider = "google" -> GoogleConvertMessages(messages)

\* a native terminal signal: a code, or null / absent
NoCode == [kind |-> "null"]
Code(c) == [kind |-> "string", value |-> c]
IsCode(reason, c) == reason.kind = "string" /\ reason.value = c

\* the terminal signals of each provider's API, one code no API documents,
\* and the missing one
NativeCodes(provider) ==
  {NoCode, Code("not_a_code")} \cup
  { Code(c) : c \in
      CASE provider = "openai" ->
             {"stop", "length", "tool_calls", "content_filter", "function_call"}
        [] provider = "anthropic" ->
             {"end_turn", "max_tokens", "stop_sequence", "tool_use", "pause_turn", "refusal"}
        [] provider = "google" ->
             {"STOP", "MAX_TOKENS", "SAFETY", "RECITATION", "OTHER", "LANGUAGE", "BLOCKLIST",
              "PROHIBITED_CONTENT", "SPII", "MALFORMED_FUNCTION_CALL",
              "FINISH_REASON_UNSPECIFIED"} }

OpenAIMapFinishReason_PassesThrough(reason) ==
  CASE IsCode(reason, "stop") -> "stop"
    [] IsCode(reason, "tool_calls") -> "tool_calls"
    [] IsCode(reason, "length") -> "length"
    [] OTHER -> IF reason.kind = "string" THEN reason.value ELSE "stop"

\* OpenAIAdapter.mapFinishReason
OpenAIMapFinishReason(reason) ==
  CASE IsCode(reason, "stop") -> "stop"
    [] IsCode(reason, "tool_calls") -> "tool_calls"
    [] IsCode(reason, "length") -> "length"
    [] OTHER -> "stop"

\* AnthropicAdapter.mapStopReason
mapStopReason(reason) ==
  CASE IsCode(reason, "end_turn") -> "stop"
    [] IsCode(reason, "tool_use") -> "tool_calls"
    [] IsCode(reason, "max_tokens") -> "length"
    [] OTHER -> "stop"

\* GoogleAdapter.mapFinishReason
GoogleMapFinishReason(reason) ==
  CASE IsCode(reason, "STOP") -> "stop"
    [] IsCode(reason, "MAX_TOKENS") -> "length"
    [] IsCode(reason, "SAFETY") \/ IsCode(reason, "RECITATION") \/ IsCode(reason, "OTHER")
         -> "error"
    [] OTHER -> "stop"

mapFinishReason(provider, reason) ==
  CASE provider = "openai" -> OpenAIMapFinishReason(reason)
    [] provider = "anthropic" -> mapStopReason(reason)
    [] provider = "google" -> GoogleMapFinishReason(reason)

\* an adapter converts the messages of a request
ConvertMessagesAct ==
  /\ FnIdle
  /\ \E provider \in Providers, messages \in SeqsUpTo(ProviderMessages, MaxMessages) :
       /\ fnCall' = [fn |-> "convertMessages", provider |-> provider, input |-> messages]
       /\ fnResult' = convertMessages(provider, messages)

\* an adapter's chat() maps the terminal signal of the provider's response
MapFinishReasonAct ==
  /\ FnIdle
  /\ \E provider \in Providers :
       \E reason \in NativeCodes(provider) :
          /\ fnCall' = [fn |-> "mapFinishReason", provider |-> provider, input |-> reason]
          /\ fnResult' = mapFinishReason(provider, reason)

(***************************************************************************)
(* generateUniqueName on its own.                                          *)
(***************************************************************************)
MaxNames == 3

BaseNames == {"Chart", "Chart (2)", "X"}

\* names a workbook may hold already
ExistingNamePool ==
  {"Chart", "Chart (2)", "Chart (3)", "Chart (4)", "Chart (2) (2)", "chart", "X", "X (2)"}

\* the lists of existing names, as the sets of their members
ExistingNameLists == {l \in SUBSET ExistingNamePool : Cardinality(l) <= MaxNames}

\* a caller asks for a free name
GenerateUniqueNameAct ==
  /\ FnIdle
  /\ \E baseName \in BaseNames, existingNames \in ExistingNameLists :
       /\ fnCall' = [fn |-> "generateUniqueName", baseName |-> baseName,
                     existingNames |-> existingNames]
       /\ fnResult' = generateUniqueName(baseName, existingNames)

(***************************************************************************)
(* Plan extraction from the text of a response: the three parse strategies *)
(* of extractPlanFromResponse, character by character.  The backquote of a *)
(* code fence is written ~ in the texts of the model.                      *)
(***************************************************************************)
Fence == "~~~"

CharAt(str, i) == SubSeq(str, i, i)

IsSpace(c) == c \in {" ", "\n", "\t"}

\* the smallest member of a non-empty set of positions
First(positions) == CHOOSE i \in positions : \A j \in positions : i <= j

\* the first position >= i of str that holds no white space, Len(str) + 1 if none
SkipSpaces(str, i) ==
  LET solid == {j \in i..Len(str) : ~IsSpace(CharAt(str, j))}
  IN IF solid = {} THEN (IF i > Len(str) THEN i ELSE Len(str) + 1) ELSE First(solid)

\* the last position <= i of str that holds no white space, 0 if none
SkipSpacesBack(str, i) ==
  LET solid == {j \in 1..i : ~IsSpace(CharAt(str, j))}
  IN IF solid = {} THEN 0 ELSE CHOOSE j \in solid : \A k \in solid : k <= j

\* String.prototype.trim
Trim(str) == SubSeq(str, SkipSpaces(str, 1), SkipSpacesBack(str, Len(str)))

StartsWithAt(str, i, pat) ==
  i + Len(pat) - 1 <= Len(str) /\ SubSeq(str, i, i + Len(pat) - 1) = pat

\* position of the first occurrence of pat in str at or after i, 0 if none
IndexOf(str, pat, i) ==
  LET hits == {j \in i..Len(str) : StartsWithAt(str, j, pat)}
  IN IF hits = {} THEN 0 ELSE First(hits)

\* the plan objects of the model as JSON texts
PlanA == "{\"plan\":{\"description\":\"Add sheet\",\"steps\":[{\"toolName\":\"createSheet\",\"args\":{\"name\":\"Q1\"}}]}}"
PlanSpaced == "{ \"plan\":{\"id\":\"plan_7\",\"steps\":[{\"toolName\":\"createChart\"}]}}"
PlanBrace == "{\"plan\":{\"description\":\"Close } brace\",\"steps\":[{\"toolName\":\"createSheet\"}]}}"
PlanNullStep == "{\"plan\":{\"steps\":[null]}}"
PlanNoSteps == "{\"plan\":{\"steps\":[]}}"
NotAPlan == "{\"a\":1}"
PlanWrapped == "{\"data\":" \o PlanA \o "}"
PlanListed == "[" \o PlanA \o "]"

PlanJsons == {PlanA, PlanSpaced, PlanBrace, PlanNullStep, PlanNoSteps, NotAPlan,
              PlanWrapped, PlanListed}

\* JSON.parse on the texts the strategies hand it: the value of a JSON text of
\* the model, a throw on every other text
SyntaxError == [kind |-> "throws"]
JsonValue(text) ==
  CASE text = PlanA ->
         [kind |-> "object",
          plan |-> [kind |-> "rawplan", header |-> [description |-> "Add sheet"],
                    steps |-> <<[toolName |-> "createSheet", args |-> ArgsQ1]>>]]
    [] text = PlanSpaced ->
         [kind |-> "object",
          plan |-> [kind |-> "rawplan", header |-> [id |-> "plan_7"],
                    steps |-> <<[toolName |-> "createChart"]>>]]
    [] text = PlanBrace ->
         [kind |-> "object",
          plan |-> [kind |-> "rawplan", header |-> [description |-> "Close } brace"],
                    steps |-> <<[toolName |-> "createSheet"]>>]]
    [] text = PlanNullStep ->
         [kind |-> "object",
          plan |-> [kind |-> "rawplan", header |-> [kind |-> "noheader"],
                    steps |-> <<NullStep>>]]
    [] text = PlanNoSteps ->
         [kind |-> "object",
          plan |-> [kind |-> "rawplan", header |-> [kind |-> "noheader"], steps |-> <<>>]]
    [] text = NotAPlan -> [kind |-> "object", plan |-> None]
    [] text = PlanWrapped -> [kind |-> "object", plan |-> None]
    [] text = PlanListed -> [kind |-> "array"]
    [] OTHER -> SyntaxError

\* Strategy 1: JSON.parse(content.trim())
DirectParse(content) == JsonValue(Trim(content))

\* content.match(/```(?:json)?\s*\n?([\s\S]*?)(?:```|$)/)[1]: what follows the
\* first fence, an optional "json" and white space, up to the next fence or
\* the end of the text; "" when there is no fence
CodeBlockMatch(content) ==
  LET open == IndexOf(content, Fence, 1)
  IN IF open = 0 THEN ""
     ELSE LET afterFence == open + Len(Fence)
              afterTag == IF StartsWithAt(content, afterFence, "json")
                          THEN afterFence + 4 ELSE afterFence
              from  == SkipSpaces(content, afterTag)
              close == IndexOf(content, Fence, from)
          IN IF close = 0 THEN SubSeq(content, from, Len(content))
             ELSE SubSeq(content, from, close - 1)

\* jsonContent.match(/(\{[\s\S]*\})\s*$/)[1] on trimmed text: from the first
\* opening brace to the closing brace that ends the text; "" when no match
TrailingObjectMatch(jsonContent) ==
  LET first == IndexOf(jsonContent, "{", 1)
      last  == Len(jsonContent)
  IN IF first # 0 /\ first < last /\ CharAt(jsonContent, last) = "}"
     THEN SubSeq(jsonContent, first, last) ELSE ""

\* Strategy 2 and 2b
CodeBlockParse(content) ==
  LET block == CodeBlockMatch(content)
  IN IF block = "" THEN SyntaxError
     ELSE LET jsonContent == Trim(block)
              whole == JsonValue(jsonContent)
          IN IF whole # SyntaxError THEN whole
             ELSE LET jsonMatch == TrailingObjectMatch(jsonContent)
                  IN IF jsonMatch = "" THEN SyntaxError ELSE JsonValue(jsonMatch)

\* content.match(/\{\s*"plan"/).index: the first opening brace followed, after
\* optional white space, by "plan" in quotes; 0 when there is none
PlanStartMatch(content) ==
  LET hits == {i \in 1..Len(content) :
                 /\ CharAt(content, i) = "{"
                 /\ StartsWithAt(content, SkipSpaces(content, i + 1), "\"plan\"")}
  IN IF hits = {} THEN 0 ELSE First(hits)

\* braceCount after the loop has read position i, starting at planStart
BraceCount(content, planStart, i) ==
  Cardinality({j \in planStart..i : CharAt(content, j) = "{"})
    - Cardinality({j \in planStart..i : CharAt(content, j) = "}"})

\* the brace-counting loop: the first position where the count is back to 0,
\* or planStart - 1 when the text ends first (endIndex = planStart)
BalancedEnd(content, planStart) ==
  LET zero == {i \in planStart..Len(content) : BraceCount(content, planStart, i) = 0}
  IN IF zero = {} THEN planStart - 1 ELSE First(zero)

\* Strategy 3
BalancedBraceParse(content) ==
  LET planStart == PlanStartMatch(content)
  IN IF planStart = 0 THEN SyntaxError
     ELSE JsonValue(SubSeq(content, planStart, BalancedEnd(content, planStart)))

\* !parsed: nothing parsed yet (JSON.parse threw)
NotParsed(parsed) == parsed = SyntaxError

\* the strategies in sequence, each one tried only if (!parsed)
ParseStrategies(content) ==
  LET first == DirectParse(content)
  IN IF ~NotParsed(first) THEN first
     ELSE LET second == CodeBlockParse(content)
          IN IF ~NotParsed(second) THEN second
             ELSE LET third == BalancedBraceParse(content)
                  IN IF ~NotParsed(third) THEN third ELSE [kind |-> "nojson"]

\* extractPlanFromResponse on the text of a response
extractPlanFromContent(content, uuid) ==
  extractPlanFromResponse([kind |-> "text", parsed |-> ParseStrategies(content)], uuid)

\* the ways a reply carries a JSON text: alone, in a closed fence, in a fence
\* left open, bare in the prose, in a fence after a label
Embeddings == {"whole", "padded", "fenced", "fencedPlain", "fencedOpen", "bare", "labelled"}

Embed(how, json) ==
  CASE how = "whole" -> json
    [] how = "padded" -> "\n " \o json \o "\n"
    [] how = "fenced" -> "Here is the plan:\n" \o Fence \o "json\n" \o json \o "\n" \o Fence
                           \o "\nShall I go on?"
    [] how = "fencedPlain" -> Fence \o "\n" \o json \o Fence
    [] how = "fencedOpen" -> "Here is the plan:\n" \o Fence \o "json\n" \o json
    [] how = "bare" -> "I suggest " \o json \o " as the plan."
    [] how = "labelled" -> Fence \o "\nplan = " \o json \o "\n" \o Fence

\* replies that hold no JSON
ProseTexts == {"", "I cannot do that.", "Use braces { like this", Fence \o "json\n" \o Fence}

ResponseTexts == ProseTexts \cup {Embed(how, json) : how \in Embeddings, json \in PlanJsons}

MaxRawSteps == 2

\* the optional fields a step of the model's plan JSON may carry
OptionalStepFields ==
  {{}, {"id"}, {"description"}, {"riskLevel"}, {"preconditions", "postconditions"},
   {"id", "riskLevel"}, {"id", "description", "riskLevel", "preconditions", "postconditions"}}

\* a step with the given optional fields; toolName is always there
RawStep(fields, id, riskLevel) ==
  [f \in fields \cup {"toolName"} |->
     CASE f = "id" -> id
       [] f = "description" -> "Add sheet Q1"
       [] f = "riskLevel" -> riskLevel
       [] f = "preconditions" -> <<"none">>
       [] f = "postconditions" -> <<"sheet exists">>
       [] f = "toolName" -> "createSheet"]

\* the steps of the model's answers: ids chosen by the model (one of them of
\* the form the extractor synthesizes, one empty), either risk level
RawSteps ==
  {RawStep(fields, id, riskLevel) :
     fields \in OptionalStepFields, id \in {"s1", "step_2", ""}, riskLevel \in {"read", "write"}}

\* the extractor gets a reply whose JSON holds the given steps
ExtractStepsAct ==
  /\ FnIdle
  /\ \E steps \in SeqsUpTo(RawSteps, MaxRawSteps) :
       /\ fnCall' = [fn |-> "extractSteps", steps |-> steps]
       /\ fnResult' = extractPlanFromResponse(
                         [kind |-> "text",
                          parsed |-> [kind |-> "object",
                                      plan |-> [kind |-> "rawplan",
                                                header |-> [kind |-> "noheader"],
                                                steps |-> steps]]], "0a1b")

\* processPlanMode hands the text of a reply to the extractor
ExtractPlanAct ==
  /\ FnIdle
  /\ \E content \in ResponseTexts, uuid \in Uuids :
       /\ fnCall' = [fn |-> "extractPlanFromResponse", content |-> content, uuid |-> uuid]
       /\ fnResult' = extractPlanFromContent(content, uuid)

\* one JSON text reaches the extractor in the four ways of a reply
ExtractEmbeddedAct ==
  /\ FnIdle
  /\ \E json \in PlanJsons, uuid \in Uuids :
       /\ fnCall' = [fn |-> "extractEmbedded", json |-> json, uuid |-> uuid]
       /\ fnResult' = [how \in {"whole", "fenced", "fencedOpen", "bare"} |->
                         extractPlanFromContent(Embed(how, json), uuid)]

(***************************************************************************)
(* The ledger service called directly: recordEntry, updateVerification,    *)
(* clearEntriesForWorkbook, as the clock runs.                             *)
(***************************************************************************)
MaxStoreEntries == 2
MaxStoreClock == 1

\* LedgerService.updateVerification: if (entry) { entry.lastVerifiedAt = Date.now(); put }
updateVerification(store, entryId, time) ==
  {IF e.id = entryId THEN [e EXCEPT !.lastVerifiedAt = time] ELSE e : e \in store}

\* LedgerService.clearEntriesForWorkbook: delete every entry of the index key
clearEntriesForWorkbook(store, fingerprint) ==
  {e \in store : e.workbookFingerprint # fingerprint}

StoreFingerprints == {"Book1:1a2b", "Other.xlsx:0"}

\* what callers hand to recordEntry
StoreInputs ==
  { [workbookFingerprint |-> f, actionType |-> a, normalizedArgs |-> Stringify(ArgsQ1),
     artifactId |-> "Q1", artifactName |-> "Q1"] :
      f \in StoreFingerprints, a \in {"createSheet", "createChart"} }

\* Math.random().toString(36).substr(2, 9) of two calls: alike or not
StoreRandoms == {"k3x9q7c2m", "7f0a1zq4d"}

StoreIds == {e.id : e \in ledger}

RecordEntryAct ==
  /\ Cardinality(ledger) < MaxStoreEntries
  /\ \E e \in StoreInputs, rnd \in StoreRandoms :
       /\ ledger' = recordEntry(ledger, e, now, rnd)
       /\ fnCall' = [fn |-> "recordEntry", entry |-> e]
       /\ fnResult' = NewEntry(e, now, rnd)
  /\ UNCHANGED now

UpdateVerificationAct ==
  /\ \E entryId \in StoreIds \cup {"createSheet_0_none"} :
       /\ ledger' = updateVerification(ledger, entryId, now)
       /\ fnCall' = [fn |-> "updateVerification", entryId |-> entryId]
  /\ fnResult' = None
  /\ UNCHANGED now

ClearEntriesForWorkbookAct ==
  /\ \E fingerprint \in StoreFingerprints :
       /\ ledger' = clearEntriesForWorkbook(ledger, fingerprint)
       /\ fnCall' = [fn |-> "clearEntriesForWorkbook", fingerprint |-> fingerprint]
  /\ fnResult' = None
  /\ UNCHANGED now

\* a millisecond passes
StoreClockTick ==
  /\ now < MaxStoreClock
  /\ now' = now + 1
  /\ UNCHANGED <<ledger, fnCall, fnResult>>

(***************************************************************************)
(* The model catalog service (ModelService): loadCatalog, reloadCatalog,   *)
(* getEnabledModels.  loadCatalog starts from modelsConfig.models, the     *)
(* array of the imported configuration module, and writes into that very   *)
(* array, so what a load starts from is what the load before it left.      *)
(***************************************************************************)
Lowers == "abcdefghijklmnopqrstuvwxyz"
Uppers == "ABCDEFGHIJKLMNOPQRSTUVWXYZ"
Digits == "0123456789"

PositionsIn(alphabet, c) == {i \in 1..Len(alphabet) : CharAt(alphabet, i) = c}

UpperChar(c) ==
  IF PositionsIn(Lowers, c) # {} THEN CharAt(Uppers, First(PositionsIn(Lowers, c))) ELSE c
LowerChar(c) ==
  IF PositionsIn(Uppers, c) # {} THEN CharAt(Lowers, First(PositionsIn(Uppers, c))) ELSE c
\* the replacement of /[^A-Z0-9]/g by '_'
KeyChar(c) ==
  IF PositionsIn(Uppers, c) # {} \/ PositionsIn(Digits, c) # {} THEN c ELSE "_"

RECURSIVE toUpperCase(_)
toUpperCase(str) ==
  IF Len(str) = 0 THEN ""
  ELSE UpperChar(CharAt(str, 1)) \o toUpperCase(SubSeq(str, 2, Len(str)))

RECURSIVE toLowerCase(_)
toLowerCase(str) ==
  IF Len(str) = 0 THEN ""
  ELSE LowerChar(CharAt(str, 1)) \o toLowerCase(SubSeq(str, 2, Len(str)))

RECURSIVE ReplaceNonKeyChars(_)
ReplaceNonKeyChars(str) ==
  IF Len(str) = 0 THEN ""
  ELSE KeyChar(CharAt(str, 1)) \o ReplaceNonKeyChars(SubSeq(str, 2, Len(str)))

\* `MODEL_${model.id.toUpperCase().replace(/[^A-Z0-9]/g, '_')}_ENABLED`
EnabledEnvKey(id) == "MODEL_" \o ReplaceNonKeyChars(toUpperCase(id)) \o "_ENABLED"

\* process.env[name]: undefined for a variable that is not set
EnvGet(e, name) == IF name \in DOMAIN e THEN e[name] ELSE Unset

\* the defaultModelId of models.json
ConfigDefaultModelId == "gpt-4o"

\* the texts MODEL_OVERRIDES takes and what JSON.parse makes of them: arrays of
\* overrides for a configured model, for a model the configuration does not
\* have, for both; an object that is no array
OverridesTable ==
  [t \in {"[{\"id\":\"gpt-4o\",\"enabled\":false}]",
          "[{\"id\":\"gpt-4-turbo\",\"provider\":\"openai\",\"enabled\":true}]",
          "[{\"id\":\"gpt-3.5\",\"enabled\":true},{\"id\":\"gpt-4-turbo\",\"provider\":\"openai\",\"enabled\":true}]",
          "{\"id\":\"gpt-4o\"}"} |->
     CASE t = "[{\"id\":\"gpt-4o\",\"enabled\":false}]" ->
            [kind |-> "array", items |-> << [id |-> "gpt-4o", enabled |-> FALSE] >>]
       [] t = "[{\"id\":\"gpt-4-turbo\",\"provider\":\"openai\",\"enabled\":true}]" ->
            [kind |-> "array",
             items |-> << [id |-> "gpt-4-turbo", provider |-> "openai", enabled |-> TRUE] >>]
       [] t = "[{\"id\":\"gpt-3.5\",\"enabled\":true},{\"id\":\"gpt-4-turbo\",\"provider\":\"openai\",\"enabled\":true}]" ->
            [kind |-> "array",
             items |-> << [id |-> "gpt-3.5", enabled |-> TRUE],
                          [id |-> "gpt-4-turbo", provider |-> "openai", enabled |-> TRUE] >>]
       [] OTHER -> [kind |-> "object"] ]

\* { ...model, ...override }
Spread(model, override) ==
  [f \in DOMAIN model \cup DOMAIN override |->
     IF f \in DOMAIN override THEN override[f] ELSE model[f]]

\* the body of the loop over the overrides: replace the model of the same id in
\* place, or push the override
ApplyOverride(models, override) ==
  LET found == {i \in 1..Len(models) : models[i].id = override.id}
  IN IF found # {}
     THEN [models EXCEPT ![First(found)] = Spread(models[First(found)], override)]
     ELSE Append(models, override)

RECURSIVE ApplyOverrides(_, _)
ApplyOverrides(models, overrides) ==
  IF overrides = <<>> THEN models
  ELSE ApplyOverrides(ApplyOverride(models, Head(overrides)), Tail(overrides))

\* the MODEL_OVERRIDES part of loadCatalog: an unset or empty variable is
\* skipped, a text JSON.parse rejects is logged, a value that is no array is
\* ignored
WithOverrides(models, e) ==
  LET envOverrides == EnvGet(e, "MODEL_OVERRIDES")
  IN IF envOverrides \in {Unset, ""} THEN models
     ELSE IF envOverrides \notin DOMAIN OverridesTable THEN models
     ELSE IF OverridesTable[envOverrides].kind # "array" THEN models
     ELSE ApplyOverrides(models, OverridesTable[envOverrides].items)

\* the MODEL_<ID>_ENABLED part of loadCatalog
WithEnabledFlags(models, e) ==
  [i \in 1..Len(models) |->
     LET envValue == EnvGet(e, EnabledEnvKey(models[i].id))
     IN IF envValue # Unset
        THEN Spread(models[i], [enabled |-> (toLowerCase(envValue) = "true")])
        ELSE models[i]]

\* ModelService.loadCatalog; configModels is modelsConfig.models as it is when
\* the load starts
loadCatalog(configModels, e) == WithEnabledFlags(WithOverrides(configModels, e), e)

\* what a load gives in a process that has loaded nothing before
FreshLoad(e) == loadCatalog(ModelCatalog, e)

Undefined == "<undefined>"

\* the configured default is kept although it is not among the enabled models
getEnabledModels_KeepsDefault(cat) ==
  [models |-> SelectSeq(cat, LAMBDA m : "enabled" \in DOMAIN m /\ m.enabled),
   defaultModelId |-> ConfigDefaultModelId]

\* ModelService.getEnabledModels
getEnabledModels(cat) ==
  LET enabledModels == SelectSeq(cat, LAMBDA m : "enabled" \in DOMAIN m /\ m.enabled)
      isEnabled     == \E i \in 1..Len(enabledModels) :
                          enabledModels[i].id = ConfigDefaultModelId
  IN [models |-> enabledModels,
      defaultModelId |-> IF isEnabled THEN ConfigDefaultModelId
                         ELSE IF enabledModels = <<>> THEN Undefined
                         ELSE enabledModels[1].id]

\* the variables of process.env that loadCatalog reads and the values they take
FlagVars == {EnabledEnvKey("gpt-4o"), EnabledEnvKey("gpt-3.5")}
FlagValues == {Unset, "true", "TRUE", "false"}
OverridesValues == {Unset, "", "[{\"id\":"} \cup DOMAIN OverridesTable

CatalogEnvs ==
  { [v \in EnvVars \cup FlagVars \cup {"MODEL_OVERRIDES"} |->
       IF v \in EnvVars THEN "sk-key"
       ELSE IF v = "MODEL_OVERRIDES" THEN o
       ELSE flags[v]] :
    flags \in [FlagVars -> FlagValues], o \in OverridesValues }

\* process.env is changed in one variable while the server runs
SetEnvAct ==
  /\ \E v \in FlagVars \cup {"MODEL_OVERRIDES"} :
       \E e \in {c \in CatalogEnvs : \A w \in DOMAIN c : w # v => c[w] = env[w]} :
          /\ e # env
          /\ env' = e
          /\ fnCall' = [fn |-> "setenv", name |-> v]
  /\ fnResult' = None
  /\ UNCHANGED <<catalog, entry, srvReq, srvLlm, srvRes>>

\* POST /models/refresh: modelService.reloadCatalog()
ReloadCatalogAct ==
  /\ catalog' = loadCatalog(catalog, env)
  /\ fnCall' = [fn |-> "reloadCatalog"]
  /\ fnResult' = None
  /\ UNCHANGED <<env, entry, srvReq, srvLlm, srvRes>>

\* GET /models: modelService.getEnabledModels()
GetEnabledModelsAct ==
  /\ fnCall' = [fn |-> "getEnabledModels"]
  /\ fnResult' = getEnabledModels(catalog)
  /\ UNCHANGED <<env, catalog, entry, srvReq, srvLlm, srvRes>>

(***************************************************************************)
(* The chat routes (chatRouter): POST /chat and POST /chat/continue.  A    *)
(* request body is a record of the fields it carries; safeParse is the     *)
(* schema applied to it.                                                   *)
(***************************************************************************)
Without(rec, f) == [g \in DOMAIN rec \ {f} |-> rec[g]]

HasAll(rec, fields) == fields \subseteq DOMAIN rec

chatMessageSchema(m) ==
  /\ HasAll(m, {"id", "role", "content", "timestamp"})
  /\ m.role \in {"user", "assistant", "system"}

workbookSchemaSchema(w) ==
  /\ HasAll(w, {"name", "sheets", "namedRanges", "activeSheet"})
  /\ \A i \in 1..Len(w.sheets) : HasAll(w.sheets[i], {"name", "tables", "charts", "pivotTables"})
  /\ \A i \in 1..Len(w.namedRanges) : HasAll(w.namedRanges[i], {"name", "address", "sheetName"})

planStepSchema(step) ==
  /\ HasAll(step, {"id", "description", "toolName", "args", "expectedEffect", "riskLevel",
                   "preconditions", "postconditions"})
  /\ step.riskLevel \in {"read", "write", "destructive"}

\* executionPlanSchema without its .optional()
executionPlanSchema(plan) ==
  /\ HasAll(plan, {"id", "createdAt", "description", "steps"})
  /\ \A i \in 1..Len(plan.steps) : planStepSchema(plan.steps[i])

toolResultSchema(tr) ==
  /\ HasAll(tr, {"callId", "result"})
  /\ HasAll(tr.result, {"success"})

\* the fields both request schemas share
CommonRequestSchema(body) ==
  /\ HasAll(body, {"modelId", "messages", "workbookSchema", "mode"})
  /\ \A i \in 1..Len(body.messages) : chatMessageSchema(body.messages[i])
  /\ workbookSchemaSchema(body.workbookSchema)
  /\ body.mode \in {"plan", "apply"}
  /\ "contextScope" \in DOMAIN body =>
        body.contextScope \in {"selection", "sheet", "table", "workbook"}

\* chatRequestSchema.safeParse(body).success
chatRequestSchema(body) ==
  /\ CommonRequestSchema(body)
  /\ "planToApply" \in DOMAIN body => executionPlanSchema(body.planToApply)

continueRequestSchema_ToolResultsOptional(body) ==
  /\ CommonRequestSchema(body)
  /\ "toolResults" \in DOMAIN body =>
        \A i \in 1..Len(body.toolResults) : toolResultSchema(body.toolResults[i])

\* continueRequestSchema.safeParse(body).success
continueRequestSchema(body) ==
  /\ CommonRequestSchema(body)
  /\ "toolResults" \in DOMAIN body
  /\ \A i \in 1..Len(body.toolResults) : toolResultSchema(body.toolResults[i])

\* parseResult.data as ChatRequest
ParsedRequest(body) ==
  [modelId |-> body.modelId, mode |-> body.mode,
   planToApply |-> IF "planToApply" \in DOMAIN body
                   THEN [kind |-> "plan", id |-> body.planToApply.id,
                         description |-> body.planToApply.description,
                         steps |-> body.planToApply.steps]
                   ELSE None]

\* what the route answers once the orchestrator has returned or thrown
RouteAnswer(res) ==
  IF res.kind = "value" /\ res.success
  THEN [status |-> 200, success |-> TRUE, response |-> res.response, plan |-> res.plan]
  ELSE [status |-> 500, error |-> res.error]

InvalidRequest == [status |-> 400, error |-> "Invalid request"]

\* request bodies: complete ones, and ones that lack a field or carry a value
\* the schema does not take
BodyMessage == [id |-> "m1", role |-> "user", content |-> "Sum column B", timestamp |-> 1]
BodyWorkbook ==
  [name |-> "Book1",
   sheets |-> << [name |-> "Sheet1", tables |-> <<>>, charts |-> <<>>, pivotTables |-> <<>>] >>,
   namedRanges |-> <<>>, activeSheet |-> "Sheet1"]
BodyPlan ==
  [id |-> "plan_7", createdAt |-> 1, description |-> "Quarterly report",
   steps |-> << CHOOSE st \in StepPool : st.riskLevel = "write" >>]

CompleteBodies ==
  { [modelId |-> m, messages |-> <<BodyMessage>>, workbookSchema |-> BodyWorkbook,
     mode |-> mode] : m \in {"gpt-4o", "no-such-model"}, mode \in {"plan", "apply"} }

BrokenBodies(bodies) ==
  { Without(b, f) : b \in bodies, f \in {"modelId", "messages", "workbookSchema", "mode"} }
  \cup { [b EXCEPT !.mode = "invalid"] : b \in bodies }
  \cup { [b EXCEPT !.messages = << [BodyMessage EXCEPT !.role = "tool"] >>] : b \in bodies }

ChatBodies ==
  CompleteBodies
  \cup { Spread(b, [planToApply |-> BodyPlan]) : b \in {c \in CompleteBodies : c.mode = "apply"} }
  \cup BrokenBodies(CompleteBodies)
  \cup { <<>> }

\* the conversation so far, the assistant turn naming the tool call it made
BodyAssistantTurn ==
  [id |-> "m2", role |-> "assistant", content |-> "Reading the range.", timestamp |-> 2,
   toolCalls |-> << [id |-> "call_r", name |-> "getRangeValues"] >>]

\* chatMessageSchema is a z.object: the parsed message keeps the keys of the
\* schema and drops any other
ParsedMessage(m) ==
  [f \in DOMAIN m \cap {"id", "role", "content", "timestamp", "metadata"} |-> m[f]]

\* the ProviderMessage list continueWithToolResults gives to adapter.chat
ContinuationMessages(messages, results) ==
  << [role |-> "system", content |-> "buildSystemPrompt"] >>
  \o [i \in 1..Len(messages) |-> [role |-> messages[i].role, content |-> messages[i].content]]
  \o [i \in 1..Len(results) |->
        [role |-> "tool", content |-> Stringify(results[i].result),
         toolCallId |-> results[i].callId]]

ContinueBodies ==
  LET complete == { Spread(b, [toolResults |-> trs]) :
                      b \in CompleteBodies, trs \in ToolResultLists }
                  \cup { Spread([b EXCEPT !.messages = <<BodyMessage, BodyAssistantTurn>>],
                                [toolResults |-> trs]) :
                           b \in CompleteBodies, trs \in ToolResultLists }
  IN complete
     \cup BrokenBodies(complete)
     \cup CompleteBodies
     \cup { [b EXCEPT !.toolResults = << [result |-> [success |-> TRUE]] >>] : b \in complete }
     \cup { <<>> }

\* the orchestrator is not called
NotInvoked ==
  /\ entry' = "idle"
  /\ srvReq' = None
  /\ srvLlm' = None
  /\ srvRes' = None

\* chatRouter.post('/')
PostChat ==
  /\ \E body \in ChatBodies, llm \in AddinLlmOutcomes, uuid \in Uuids :
       /\ fnCall' = [fn |-> "POST /chat", body |-> body]
       /\ IF ~chatRequestSchema(body)
          THEN fnResult' = InvalidRequest /\ NotInvoked
          ELSE \E res \in {processChat(env, catalog, ParsedRequest(body), llm, uuid)} :
                 /\ entry' = "processChat"
                 /\ srvReq' = ParsedRequest(body)
                 /\ srvLlm' = IF res.chatCalls = 0 THEN None ELSE llm
                 /\ srvRes' = res
                 /\ fnResult' = RouteAnswer(res)
  /\ UNCHANGED <<env, catalog>>

\* chatRouter.post('/continue')
PostContinue ==
  /\ \E body \in ContinueBodies, llm \in AddinLlmOutcomes, uuid \in Uuids :
       /\ fnCall' = [fn |-> "POST /chat/continue", body |-> body]
       /\ IF ~continueRequestSchema(body)
          THEN fnResult' = InvalidRequest /\ NotInvoked
          ELSE \E res \in {continueWithToolResults(env, catalog, ParsedRequest(body),
                                                   body.toolResults, llm, uuid)} :
                 /\ entry' = "continueWithToolResults"
                 /\ srvReq' = ParsedRequest(body)
                 /\ srvLlm' = IF res.chatCalls = 0 THEN None ELSE llm
                 /\ srvRes' = res
                 /\ fnResult' = RouteAnswer(res)
  /\ UNCHANGED <<env, catalog>>

(***************************************************************************)
(* Specifications.                                                         *)
(***************************************************************************)
vars == <<env, catalog, entry, srvReq, srvLlm, srvRes, wb, ledger, now, lastExec,
          quiet, lastFind, inFlight, facModel, facRes, pc, pending, toolResults, currentPlan,
          turnModel, unapproved, approvedRuns, lastRun, strmProvider, strmPhase, strmScripts,
          strmCalls, strmArrivals, strmOpen, currentToolCalls, currentToolUse, strmOut,
          fnCall, fnResult>>

\* the adapters' own state, which the other components never touch
adapterVars == <<streamVars, fnVars>>
AdapterIdle == StreamIdle /\ FnIdle

\* the variables an action of one component leaves alone
OnlyServer  == UNCHANGED inFlight /\ UNCHANGED ledgerVars /\ UNCHANGED factoryVars /\ UNCHANGED addinVars
                 /\ UNCHANGED adapterVars
OnlyLedger  == UNCHANGED inFlight /\ UNCHANGED serverVars /\ UNCHANGED factoryVars /\ UNCHANGED addinVars
                 /\ UNCHANGED adapterVars
OnlyFactory == UNCHANGED inFlight /\ UNCHANGED <<catalog, entry, srvReq, srvLlm, srvRes>>
                 /\ UNCHANGED ledgerVars /\ UNCHANGED addinVars /\ UNCHANGED adapterVars
OnlyAddin   == UNCHANGED inFlight /\ UNCHANGED serverVars /\ UNCHANGED factoryVars
                 /\ UNCHANGED <<lastExec, quiet, lastFind>> /\ UNCHANGED adapterVars
OnlyStream  == UNCHANGED inFlight /\ UNCHANGED serverVars /\ UNCHANGED ledgerVars /\ UNCHANGED factoryVars
                 /\ UNCHANGED addinVars /\ UNCHANGED fnVars
OnlyStore   == UNCHANGED inFlight /\ UNCHANGED serverVars /\ UNCHANGED factoryVars /\ UNCHANGED addinVars
                 /\ UNCHANGED streamVars /\ UNCHANGED <<wb, lastExec, quiet, lastFind>>
OnlyCatalog == UNCHANGED inFlight /\ UNCHANGED ledgerVars
                 /\ UNCHANGED factoryVars /\ UNCHANGED addinVars /\ UNCHANGED streamVars
OnlyFn      == UNCHANGED inFlight /\ UNCHANGED serverVars /\ UNCHANGED ledgerVars /\ UNCHANGED factoryVars
                 /\ UNCHANGED addinVars /\ UNCHANGED streamVars

OnlyOverlap == UNCHANGED serverVars /\ UNCHANGED factoryVars /\ UNCHANGED addinVars
                 /\ UNCHANGED adapterVars

AllKeys == [v \in EnvVars |-> "sk-key"]

\* the orchestrator as seen by its callers
Init ==
  /\ env \in ServerEnvs
  /\ catalog = ModelCatalog
  /\ ServerIdle
  /\ LedgerIdle
  /\ FactoryIdle
  /\ AddinIdle
  /\ AdapterIdle

Next ==
  \/ ProcessChatAct /\ OnlyServer
  \/ ContinueAct    /\ OnlyServer
  \/ ServerReturn   /\ OnlyServer

Spec == Init /\ [][Next]_vars

\* the ledger and executeToolCall against a workbook the user also edits
InitLedger ==
  /\ env = AllKeys
  /\ catalog = ModelCatalog
  /\ ServerIdle
  /\ LedgerIdle
  /\ FactoryIdle
  /\ AddinIdle
  /\ AdapterIdle

NextLedger ==
  \/ ExecuteToolCallAct /\ OnlyLedger
  \/ FindEntryAct       /\ OnlyLedger
  \/ UserDeletes        /\ OnlyLedger

SpecLedger == InitLedger /\ [][NextLedger]_vars

\* the adapter factory under every environment
InitFactory ==
  /\ env \in AllEnvs
  /\ catalog = ModelCatalog
  /\ ServerIdle
  /\ LedgerIdle
  /\ FactoryIdle
  /\ AddinIdle
  /\ AdapterIdle

NextFactory == CreateProviderAdapterAct /\ OnlyFactory

SpecFactory == InitFactory /\ [][NextFactory]_vars

\* the add-in driving the orchestrator and the workbook
InitAddin ==
  /\ env = AllKeys
  /\ catalog = ModelCatalog
  /\ ServerIdle
  /\ LedgerIdle
  /\ FactoryIdle
  /\ AddinIdle
  /\ AdapterIdle

NextAddin ==
  \/ SendMessage     /\ OnlyAddin
  \/ ProcessResponse /\ OnlyAddin
  \/ ContinueChat    /\ OnlyAddin
  \/ ApprovePlan     /\ OnlyAddin
  \/ CancelPlan      /\ OnlyAddin

SpecAddin == InitAddin /\ [][NextAddin]_vars

\* two executeToolCall invocations started together on an untouched workbook
InitOverlap ==
  /\ env = AllKeys
  /\ catalog = ModelCatalog
  /\ ServerIdle
  /\ wb = EmptyWorkbook
  /\ ledger = {}
  /\ now = 0
  /\ lastExec = None
  /\ quiet = TRUE
  /\ lastFind = None
  /\ inFlight \in [1..2 -> {Invocation(req) : req \in ToolRequests}]
  /\ FactoryIdle
  /\ AddinIdle
  /\ AdapterIdle

NextOverlap ==
  \/ FirstCallSteps  /\ OnlyOverlap
  \/ SecondCallSteps /\ OnlyOverlap

SpecOverlap == InitOverlap /\ [][NextOverlap]_vars

\* a plan approved, applied, proposed again and applied again
InitReapply ==
  /\ env = AllKeys
  /\ catalog = ModelCatalog
  /\ ServerIdle
  /\ LedgerIdle
  /\ FactoryIdle
  /\ pc = "idle"
  /\ pending = <<>>
  /\ toolResults = <<>>
  /\ currentPlan \in ReapplyPlans
  /\ turnModel = ""
  /\ unapproved = {}
  /\ approvedRuns = {}
  /\ lastRun = None
  /\ AdapterIdle

NextReapply ==
  \/ ApprovePlan  /\ OnlyAddin
  \/ ProposeAgain /\ OnlyAddin

SpecReapply == InitReapply /\ [][NextReapply]_vars

\* the streaming adapters fed by their providers
InitStream ==
  /\ env = AllKeys
  /\ catalog = ModelCatalog
  /\ ServerIdle
  /\ LedgerIdle
  /\ FactoryIdle
  /\ AddinIdle
  /\ AdapterIdle

NextStream ==
  \/ StartStream          /\ OnlyStream
  \/ OpenAITextDelta      /\ OnlyStream
  \/ OpenAIToolCallDelta  /\ OnlyStream
  \/ OpenAIFinish         /\ OnlyStream
  \/ AnthropicBlockStart  /\ OnlyStream
  \/ AnthropicBlockDelta  /\ OnlyStream
  \/ AnthropicBlockStop   /\ OnlyStream
  \/ AnthropicMessageStop /\ OnlyStream

SpecStream == InitStream /\ [][NextStream]_vars

\* the adapters' message conversion and finish-reason mapping, applied to
\* every input of the pools
InitAdapterFns ==
  /\ env = AllKeys
  /\ catalog = ModelCatalog
  /\ ServerIdle
  /\ LedgerIdle
  /\ FactoryIdle
  /\ AddinIdle
  /\ AdapterIdle

NextAdapterFns ==
  \/ ConvertMessagesAct  /\ OnlyFn
  \/ MapFinishReasonAct  /\ OnlyFn

SpecAdapterFns == InitAdapterFns /\ [][NextAdapterFns]_vars

\* generateUniqueName applied to every base name and list of the pools
InitNames ==
  /\ env = AllKeys
  /\ catalog = ModelCatalog
  /\ ServerIdle
  /\ LedgerIdle
  /\ FactoryIdle
  /\ AddinIdle
  /\ AdapterIdle

NextNames == GenerateUniqueNameAct /\ OnlyFn

SpecNames == InitNames /\ [][NextNames]_vars

\* the plan extractor applied to the replies of the pool
InitExtract ==
  /\ env = AllKeys
  /\ catalog = ModelCatalog
  /\ ServerIdle
  /\ LedgerIdle
  /\ FactoryIdle
  /\ AddinIdle
  /\ AdapterIdle

NextExtract ==
  \/ ExtractPlanAct      /\ OnlyFn
  \/ ExtractEmbeddedAct  /\ OnlyFn
  \/ ExtractStepsAct     /\ OnlyFn

SpecExtract == InitExtract /\ [][NextExtract]_vars

\* the ledger service under direct calls
InitStore ==
  /\ env = AllKeys
  /\ catalog = ModelCatalog
  /\ ServerIdle
  /\ LedgerIdle
  /\ FactoryIdle
  /\ AddinIdle
  /\ AdapterIdle

NextStore ==
  \/ RecordEntryAct             /\ OnlyStore
  \/ UpdateVerificationAct      /\ OnlyStore
  \/ ClearEntriesForWorkbookAct /\ OnlyStore
  \/ StoreClockTick             /\ OnlyStore

SpecStore == InitStore /\ [][NextStore]_vars

\* the catalog service under a changing environment; the constructor has
\* loaded the catalog from the configuration file
InitCatalog ==
  /\ env \in CatalogEnvs
  /\ catalog = loadCatalog(ModelCatalog, env)
  /\ ServerIdle
  /\ LedgerIdle
  /\ FactoryIdle
  /\ AddinIdle
  /\ AdapterIdle

NextCatalog ==
  \/ SetEnvAct           /\ OnlyCatalog
  \/ ReloadCatalogAct    /\ OnlyCatalog
  \/ GetEnabledModelsAct /\ OnlyCatalog

SpecCatalog == InitCatalog /\ [][NextCatalog]_vars

\* the chat routes in front of the orchestrator
InitRoutes ==
  /\ env = AllKeys
  /\ catalog = ModelCatalog
  /\ ServerIdle
  /\ LedgerIdle
  /\ FactoryIdle
  /\ AddinIdle
  /\ AdapterIdle

NextRoutes ==
  \/ PostChat     /\ OnlyCatalog
  \/ PostContinue /\ OnlyCatalog

SpecRoutes == InitRoutes /\ [][NextRoutes]_vars

(***************************************************************************)
(* Observations used by the properties.                                    *)
(***************************************************************************)
\* chunks of the recorded result (none when the call failed)
Served == srvRes # None /\ srvRes.kind = "value" /\ srvRes.success
ResChunks == IF Served THEN srvRes.response.items ELSE <<>>

TypesOf(chunks) == [i \in 1..Len(chunks) |-> chunks[i].type]

\* the request of the call in progress has the given mode
InMode(mode) == entry # "idle" /\ srvReq.mode = mode

\* the call in progress is a plan-mode call whose response text holds a plan
TextYieldsPlan ==
  /\ InMode("plan")
  /\ srvLlm # None
  /\ srvLlm.kind = "response"
  /\ srvLlm.content # NoContent
  /\ \E u \in Uuids : extractPlanFromResponse(srvLlm.content, u) # None

\* the call in progress is processChat in apply mode with planToApply set
ApplyingPlan ==
  /\ entry = "processChat"
  /\ srvReq.mode = "apply"
  /\ srvReq.planToApply # None

(***************************************************************************)
(* Properties of the orchestrator (specification Spec).                    *)
(***************************************************************************)

\* C1: while mode = 'plan', no tool_call chunk returned by processChat or by
\* continueWithToolResults names a tool whose riskLevel is write or destructive.
C1_PlanModeEmitsNoWriteToolCall ==
  (InMode("plan") /\ Served) =>
     \A i \in 1..Len(ResChunks) :
        ResChunks[i].type = "tool_call" =>
           RiskOf(ResChunks[i].toolName) \notin {"write", "destructive"}

\* C3: processChat in apply mode with a planToApply of n steps, once the model
\* and adapter are resolved, returns exactly 2n chunks: for the i-th step a
\* step_progress(started, stepId) chunk at 2i-1 and a tool_call chunk with the
\* step's toolName and args at 2i.
C3_ApplyEmitsStepsInPlanOrder ==
  (ApplyingPlan /\ Served) =>
     LET steps == srvReq.planToApply.steps
     IN /\ Len(ResChunks) = 2 * Len(steps)
        /\ \A i \in 1..Len(steps) :
              /\ ResChunks[2 * i - 1].type = "step_progress"
              /\ ResChunks[2 * i - 1].status = "started"
              /\ ResChunks[2 * i - 1].stepId = steps[i].id
              /\ ResChunks[2 * i].type = "tool_call"
              /\ ResChunks[2 * i].toolName = steps[i].toolName
              /\ ResChunks[2 * i].args = steps[i].args

\* a served apply of a two-step plan whose steps differ
C3_Witness ==
  /\ ApplyingPlan
  /\ Served
  /\ Len(srvReq.planToApply.steps) = 2
  /\ srvReq.planToApply.steps[1].toolName # srvReq.planToApply.steps[2].toolName
  /\ Len(ResChunks) = 4

\* C4: processChat in apply mode with planToApply set invokes adapter.chat
\* zero times for that request.
C4_ApplyDoesNotCallTheModel ==
  ApplyingPlan => srvRes.chatCalls = 0

\* a served apply of a one-step plan
C4_Witness ==
  /\ ApplyingPlan
  /\ Served
  /\ Len(srvReq.planToApply.steps) = 1
  /\ Len(ResChunks) = 2

\* C8: every failure of a turn is returned as the value {success:false, error}
\* by processChat and by continueWithToolResults; no call ends in a rejected
\* promise.
C8_FailuresAreReturnedAsValues ==
  entry # "idle" =>
     /\ srvRes.kind = "value"
     /\ (~srvRes.success => srvRes.error # None)

CredentialPresent(provider) == env[EnvVar(provider)] \notin {Unset, ""}

EntriesFor(fingerprint, actionType, normalizedArgs) ==
  {e \in ledger : /\ e.workbookFingerprint = fingerprint
                  /\ e.actionType = actionType
                  /\ e.normalizedArgs = normalizedArgs}

\* every name an artifact of the live workbook goes by
LiveNames ==
  wb.sheets \cup AllNames(wb.charts) \cup AllNames(wb.tables)
            \cup AllNames(wb.pivots) \cup wb.names

\* C5: when an artifact-creating request has just been executed and the same
\* tool with the same arguments is executed again, nobody having touched the
\* workbook in between, the second call's lookup reports exists and verified,
\* the tool is not invoked again, and the ledger holds exactly one entry for
\* the fingerprint / action / args triple.
C5_RepeatedRequestIsSkipped ==
  (lastExec # None /\ lastExec.repeats /\ lastExec.ioOk) =>
     /\ lastExec.lookup = "verified"
     /\ ~lastExec.invoked
     /\ Cardinality(EntriesFor(getWorkbookFingerprint(wb).computed, lastExec.toolName,
                               Stringify(lastExec.args))) = 1

\* C6: findEntry reports exists:true if and only if the store holds an entry
\* whose workbookFingerprint and actionType equal the query's and, when the
\* query gives normalizedArgs, whose normalizedArgs is exactly equal.
C6_ExistsIffMatchingEntry ==
  lastFind # None =>
     LET q == lastFind.query
     IN lastFind.result.exists <=>
          \E e \in ledger :
             /\ "workbookFingerprint" \in DOMAIN q
             /\ e.workbookFingerprint = q.workbookFingerprint
             /\ "actionType" \in DOMAIN q
             /\ e.actionType = q.actionType
             /\ ("normalizedArgs" \in DOMAIN q => e.normalizedArgs = q.normalizedArgs)

\* a lookup by arguments that misses although the store holds an entry of the
\* same fingerprint and action recorded with other arguments
C6_Witness ==
  /\ lastFind # None
  /\ "normalizedArgs" \in DOMAIN lastFind.query
  /\ ~lastFind.result.exists
  /\ \E e \in ledger :
        /\ e.workbookFingerprint = lastFind.query.workbookFingerprint
        /\ e.actionType = lastFind.query.actionType
        /\ e.normalizedArgs # lastFind.query.normalizedArgs

\* C7: whenever findEntry matches an entry whose artifactName is not present in
\* the live workbook, or the read made for the verification fails, the result
\* is exists:true, verified:false, needsRecreation:true.
C7_StaleEntryNeedsRecreation ==
  (/\ lastFind # None
   /\ lastFind.result.exists
   /\ (lastFind.readFails \/ lastFind.result.entry.artifactName \notin LiveNames)) =>
     /\ ~lastFind.result.verified
     /\ lastFind.result.needsRecreation

(***************************************************************************)
(* Properties of the add-in's chat hook (specification SpecAddin).         *)
(***************************************************************************)

\* C2: during sendMessage and the continuation loop of processResponse, that
\* is before the user approves a plan, no tool whose riskLevel is write or
\* destructive is given to executeToolCall.
C2_NoWriteToolBeforeApproval ==
  \A t \in unapproved : RiskOf(t) \notin {"write", "destructive"}

\* C11: a plan-mode turn ends with a response that holds a terminal chunk: once
\* the add-in processes a response that asks for no tool execution (the last
\* response of the turn), that response contains a final chunk.
C11_LastResponseHasFinalChunk ==
  (pc = "processing" /\ ToolCallsOf(pending) = <<>>) =>
     \E i \in 1..Len(pending) : pending[i].type = "final"

(***************************************************************************)
(* Further properties of the orchestrator (specification Spec).            *)
(***************************************************************************)

\* the call in progress is a served continuation in which no plan was extracted
ContinuationWithoutPlan ==
  /\ entry = "continueWithToolResults"
  /\ Served
  /\ srvRes.plan = None

\* C12: in continueWithToolResults, when no plan is extracted, a final chunk is
\* emitted if and only if the response's finishReason is stop and it carries
\* no tool calls; when emitted it is the last chunk and the only final chunk.
C12_FinalIffStopWithoutToolCalls ==
  ContinuationWithoutPlan =>
     LET finals == {i \in 1..Len(ResChunks) : ResChunks[i].type = "final"}
     IN /\ finals # {} <=> (srvLlm.finishReason = "stop" /\ Len(CallItems(srvLlm)) = 0)
        /\ finals \subseteq {Len(ResChunks)}

\* the whole argument text the provider has sent for call k
RECURSIVE JoinFragments(_)
JoinFragments(frags) ==
  IF frags = <<>> THEN "" ELSE Head(frags) \o JoinFragments(Tail(frags))

\* the positions of the tool_call chunks yielded for call k
ToolCallChunksFor(k) ==
  {i \in 1..Len(strmOut) : strmOut[i].type = "tool_call" /\ strmOut[i].callId = strmCalls[k].id}

\* call k is finalized (the provider has closed it) with a payload that parses
Reconstructed(k) ==
  strmCalls[k].closed /\ ~ParseFails(JoinFragments(strmCalls[k].frags))

\* C13: a streamed call is yielded as a tool_call chunk once, and only once
\* the provider has closed it; the chunk carries the call's name and the JSON
\* value of all its fragments joined in arrival order, whether or not the
\* fragments of other calls arrived in between; every tool_call chunk of the
\* stream belongs to such a call.
C13_CallEmittedOnceFromFullPayload ==
  /\ \A k \in 1..Len(strmCalls) :
       /\ Cardinality(ToolCallChunksFor(k)) = (IF Reconstructed(k) THEN 1 ELSE 0)
       /\ \A i \in ToolCallChunksFor(k) :
            /\ strmOut[i].args = ParseText(JoinFragments(strmCalls[k].frags))
            /\ strmOut[i].toolName = strmCalls[k].name
  /\ \A i \in 1..Len(strmOut) :
       strmOut[i].type = "tool_call" =>
          \E k \in 1..Len(strmCalls) : i \in ToolCallChunksFor(k)

\* two OpenAI calls whose fragments took turns were both yielded whole
C13_Witness ==
  /\ strmProvider = "openai"
  /\ strmArrivals = <<1, 2, 1>>
  /\ Len(strmCalls) = 2
  /\ \E i \in ToolCallChunksFor(1) : strmOut[i].args = [a |-> 1]
  /\ \E i \in ToolCallChunksFor(2) : strmOut[i].args = [b |-> 2]

\* the calls finalized with a payload that is not JSON
FailedCalls ==
  {k \in 1..Len(strmCalls) :
     strmCalls[k].closed /\ ParseFails(JoinFragments(strmCalls[k].frags))}

ErrorChunks == {i \in 1..Len(strmOut) : strmOut[i].type = "error"}

\* C14: a call finalized with a payload that is not valid JSON yields no
\* tool_call chunk; the stream holds one error chunk per such call, and every
\* one of them is marked recoverable.
C14_BadPayloadYieldsOneRecoverableError ==
  /\ \A k \in FailedCalls : ToolCallChunksFor(k) = {}
  /\ Cardinality(ErrorChunks) = Cardinality(FailedCalls)
  /\ \A i \in ErrorChunks : strmOut[i].recoverable = TRUE

\* an Anthropic tool_use block was closed with a payload cut short
C14_Witness ==
  /\ strmProvider = "anthropic"
  /\ FailedCalls = {1}
  /\ Cardinality(ErrorChunks) = 1

\* the tool call ids a wire element is addressed to
WireToolCallIds(provider, element) ==
  CASE provider = "openai" ->
         IF element.role = "tool" THEN {element.tool_call_id} ELSE {}
    [] provider = "anthropic" ->
         IF element.content.kind = "string" THEN {}
         ELSE {element.content.items[j].tool_use_id :
                 j \in {j \in 1..Len(element.content.items) :
                          element.content.items[j].type = "tool_result"}}
    [] provider = "google" ->
         \* a functionResponse part holds name and response only
         {}

\* the elements of the wire message list that carry a tool result
WireToolResults(provider, wire) ==
  {i \in 1..Len(wire) :
     CASE provider = "openai" -> wire[i].role = "tool"
       [] provider = "anthropic" -> wire[i].content.kind = "array"
                                      /\ \E j \in 1..Len(wire[i].content.items) :
                                            wire[i].content.items[j].type = "tool_result"
       [] provider = "google" -> \E j \in 1..Len(wire[i].parts) :
                                    "functionResponse" \in DOMAIN wire[i].parts[j]}

\* C15: the wire tool-result elements produced by convertMessages are as many
\* as the tool messages of the input, in the same order, and the k-th of them
\* is addressed to the toolCallId of the k-th tool message.
C15_ToolResultKeepsToolCallId ==
  (fnCall # None /\ fnCall.fn = "convertMessages") =>
     LET tools == SelectSeq(fnCall.input, LAMBDA m : m.role = "tool")
         wire  == fnResult.messages
         at    == WireToolResults(fnCall.provider, wire)
         nth(k) == CHOOSE i \in at : Cardinality({j \in at : j < i}) = k - 1
     IN /\ Cardinality(at) = Len(tools)
        /\ \A k \in 1..Len(tools) :
             WireToolCallIds(fnCall.provider, wire[nth(k)]) = {tools[k].toolCallId}

\* the codes each mapping names in a case of its switch
RecognizedCodes(provider) ==
  CASE provider = "openai" -> {"stop", "tool_calls", "length"}
    [] provider = "anthropic" -> {"end_turn", "tool_use", "max_tokens"}
    [] provider = "google" -> {"STOP", "MAX_TOKENS", "SAFETY", "RECITATION", "OTHER"}

Unrecognized(provider, reason) ==
  reason.kind = "string" /\ reason.value \notin RecognizedCodes(provider)

\* C16: whatever terminal signal the provider sends, a code, an unknown code or
\* none, the adapter's mapping returns one of stop, tool_calls, length, error;
\* a code the mapping does not name gives stop.
C16_FinishReasonMappingIsTotal ==
  (fnCall # None /\ fnCall.fn = "mapFinishReason") =>
     /\ fnResult \in FinishReasons
     /\ Unrecognized(fnCall.provider, fnCall.input) => fnResult = "stop"

\* OpenAI's function_call, which mapFinishReason does not name, was mapped
C16_Witness ==
  /\ fnCall # None
  /\ fnCall.fn = "mapFinishReason"
  /\ fnCall.provider = "openai"
  /\ fnCall.input = Code("function_call")
  /\ fnResult = "stop"

\* the signals by which a provider says it withheld the output
BlockedOutputCodes(provider) ==
  CASE provider = "openai" -> {"content_filter"}
    [] provider = "google" -> {"SAFETY", "RECITATION"}
    [] OTHER -> {}

\* C17: a blocked-output signal (Google SAFETY, RECITATION; OpenAI
\* content_filter) is mapped to error, never to stop.
C17_BlockedOutputMapsToError ==
  (/\ fnCall # None
   /\ fnCall.fn = "mapFinishReason"
   /\ fnCall.input.kind = "string"
   /\ fnCall.input.value \in BlockedOutputCodes(fnCall.provider)) => fnResult = "error"

\* base + " (k)"
Numbered(baseName, k) == baseName \o " (" \o ToString(k) \o ")"

\* C18: generateUniqueName returns a name that is not in the list: the base
\* name when it is free, otherwise the base name followed by " (k)" for the
\* smallest k >= 2 whose name is free.
C18_UniqueNameIsFirstFree ==
  (fnCall # None /\ fnCall.fn = "generateUniqueName") =>
     LET baseName == fnCall.baseName
         existingNames == fnCall.existingNames
     IN /\ fnResult \notin existingNames
        /\ baseName \notin existingNames => fnResult = baseName
        /\ baseName \in existingNames =>
             \E k \in 2..(Cardinality(existingNames) + 2) :
                /\ fnResult = Numbered(baseName, k)
                /\ \A j \in 2..(k - 1) : Numbered(baseName, j) \in existingNames

\* 'Chart' with ['Chart', 'Chart (2)'] gave 'Chart (3)'
C18_Witness ==
  /\ fnCall # None
  /\ fnCall.fn = "generateUniqueName"
  /\ fnCall.baseName = "Chart"
  /\ fnCall.existingNames = {"Chart", "Chart (2)"}
  /\ fnResult = "Chart (3)"

\* a strategy's result is an object whose plan.steps is a non-empty array
HasUsablePlan(parsed) ==
  parsed.kind = "object" /\ parsed.plan # None /\ Len(parsed.plan.steps) > 0

\* C19: the extractor returns a plan exactly when one of the three strategies,
\* applied to the text, parses to an object whose plan.steps is a non-empty
\* array; otherwise it returns null.
C19_PlanIffSomeStrategyParsesOne ==
  (fnCall # None /\ fnCall.fn = "extractPlanFromResponse") =>
     (fnResult # None <=>
        \/ HasUsablePlan(DirectParse(fnCall.content))
        \/ HasUsablePlan(CodeBlockParse(fnCall.content))
        \/ HasUsablePlan(BalancedBraceParse(fnCall.content)))

\* description and steps of an extracted plan, or null
PlanBody(plan) ==
  IF plan = None THEN None
  ELSE [description |-> plan.description, steps |-> plan.steps]

\* C20: a plan JSON that the extractor accepts as the whole text gives a plan
\* with the same description and the same steps when it comes in a closed
\* fence, in a fence left open, or bare in the middle of prose.
C20_EmbeddingDoesNotChangeThePlan ==
  (fnCall # None /\ fnCall.fn = "extractEmbedded" /\ fnResult["whole"] # None) =>
     \A how \in {"fenced", "fencedOpen", "bare"} :
        PlanBody(fnResult[how]) = PlanBody(fnResult["whole"])

\* a field of a raw step is missing
Lacks(step, field) == field \notin DOMAIN step

\* C21: in an extracted plan, a step that came without id has the id
\* step_<position>, one without description has 'Unnamed step', one without
\* riskLevel has 'write', one without preconditions or postconditions has the
\* empty list for it.
C21_MissingStepFieldsGetDefaults ==
  (fnCall # None /\ fnCall.fn = "extractSteps" /\ fnResult # None) =>
     /\ Len(fnResult.steps) = Len(fnCall.steps)
     /\ \A i \in 1..Len(fnCall.steps) :
          LET raw == fnCall.steps[i]
              step == fnResult.steps[i]
          IN /\ Lacks(raw, "id") => step.id = "step_" \o ToString(i)
             /\ Lacks(raw, "description") => step.description = "Unnamed step"
             /\ Lacks(raw, "riskLevel") => step.riskLevel = "write"
             /\ Lacks(raw, "preconditions") => step.preconditions = <<>>
             /\ Lacks(raw, "postconditions") => step.postconditions = <<>>

\* a plan whose second step came with nothing but its tool name
C21_Witness ==
  /\ fnCall # None
  /\ fnCall.fn = "extractSteps"
  /\ Len(fnCall.steps) = 2
  /\ DOMAIN fnCall.steps[2] = {"toolName"}
  /\ fnResult # None
  /\ fnResult.steps[2].id = "step_2"
  /\ fnResult.steps[2].riskLevel = "write"

\* C22: the steps of an extracted plan have pairwise distinct ids, whether the
\* ids come from the model or are synthesized.
C22_StepIdsAreDistinct ==
  (fnCall # None /\ fnCall.fn = "extractSteps" /\ fnResult # None) =>
     \A i, j \in 1..Len(fnResult.steps) :
        i # j => fnResult.steps[i].id # fnResult.steps[j].id

\* the step is a call of the given ledger operation
StepOf(fn) == fnCall' # None /\ fnCall'.fn = fn

\* C23: a recordEntry call adds one entry to the store, under an id that no
\* stored entry had, and leaves every stored entry as it was; also when the
\* stored entries were recorded for the same actionType in the same millisecond.
C23_RecordEntryAddsOneFreshEntry ==
  [][StepOf("recordEntry") =>
       /\ fnResult'.id \notin StoreIds
       /\ ledger \subseteq ledger'
       /\ ledger' = ledger \cup {fnResult'}
       /\ Cardinality(ledger') = Cardinality(ledger) + 1]_vars

\* the same artifact record, whatever its last verification time
SameRecord(e, f) == [e EXCEPT !.lastVerifiedAt = 0] = [f EXCEPT !.lastVerifiedAt = 0]

\* the entries of the store that the step does away with
RemovedEntries == {e \in ledger : ~\E f \in ledger' : SameRecord(e, f)}

\* C27: a step removes entries only if it is clearEntriesForWorkbook, and then
\* it removes the entries of the given fingerprint and no other entry.
C27_OnlyThePurgeRemovesEntries ==
  [][/\ RemovedEntries # {} => StepOf("clearEntriesForWorkbook")
     /\ StepOf("clearEntriesForWorkbook") =>
          /\ RemovedEntries = {e \in ledger : e.workbookFingerprint = fnCall'.fingerprint}
          /\ ledger' = ledger \ RemovedEntries]_vars

\* the tools that create an artifact in the workbook
ArtifactTools == {"createSheet", "ensureTable", "createChart", "createPivotTable",
                  "addNamedRange"}

\* C24: whenever executeToolCall invokes the function of an artifact-creating
\* tool (createSheet, ensureTable, createChart, createPivotTable,
\* addNamedRange), it has looked the request up in the ledger first.
C24_LookupBeforeEveryArtifactTool ==
  (lastExec # None /\ lastExec.toolName \in ArtifactTools /\ lastExec.invoked) =>
     lastExec.lookup # "none"

\* the step is one executeToolCall of an artifact-creating tool
ArtifactToolStep ==
  /\ lastExec' # None
  /\ now' = now + 1
  /\ lastExec'.toolName \in ArtifactTools

\* the artifact the step asks for is in the workbook already, so that the tool
\* creates nothing
ArtifactAlreadyThere ==
  /\ lastExec'.toolName = "ensureTable"
  /\ lastExec'.args.tableName \in AllNames(wb.tables)

\* C25: an executeToolCall of an artifact-creating tool adds one entry to the
\* ledger when the tool ran, succeeded and created its artifact; it leaves the
\* ledger as it was when the call failed or when nothing was created because
\* the artifact existed already.
C25_OneEntryPerCreation ==
  [][ArtifactToolStep =>
        IF lastExec'.created /\ ~ArtifactAlreadyThere
        THEN ledger \subseteq ledger' /\ Cardinality(ledger') = Cardinality(ledger) + 1
        ELSE ledger' = ledger]_vars

\* C26: after a lookup that found the entry's artifact in the live workbook
\* (verified: true), the stored entry's lastVerifiedAt is the time of the lookup.
C26_VerifiedLookupUpdatesLastVerifiedAt ==
  (lastFind # None /\ lastFind.result.verified) =>
     \E e \in ledger : e.id = lastFind.result.entry.id /\ e.lastVerifiedAt = now

\* C28: approvePlan executes the steps of the plan one after the other in plan
\* order, each on the workbook and ledger the step before it left behind and at
\* a later time; every executed step but the last succeeded, the run ends before
\* the end of the plan only at a step that failed, and what the executed steps
\* did is what the workbook and the ledger hold when approvePlan returns.
RunStartsFrom(i) == IF i = 1 THEN lastRun.before ELSE lastRun.log[i - 1].after

C29_ContinuationCarriesOneResultPerToolCall ==
  [][ /\ pc = "processing" /\ pc' # pc =>
           LET calls == ToolCallsOf(pending)
           IN /\ pending' = <<>>
              /\ Len(toolResults') = Len(calls)
              /\ \A i \in 1..Len(calls) :
                   /\ toolResults'[i].callId = calls[i].callId
                   /\ calls[i].toolName \in unapproved'
              /\ now' = now + Len(calls)
              /\ pc' = "continuing" => calls # <<>>
      /\ pc = "continuing" => /\ pending = <<>>
                              /\ toolResults # <<>>
                              /\ pc' # pc => toolResults' = <<>> ]_vars

\* a continuation about to be requested with the results of two tool calls
C29_Witness ==
  /\ pc = "continuing"
  /\ Len(toolResults) = 2
  /\ toolResults[1].callId # toolResults[2].callId

\* the call in progress is processChat in apply mode without a planToApply
DirectApply ==
  /\ entry = "processChat"
  /\ srvReq.mode = "apply"
  /\ srvReq.planToApply = None

\* C30: a direct apply (apply mode, no planToApply) whose model and adapter are
\* resolved invokes adapter.chat exactly once; when it is served it returns no
\* plan, whatever the response text holds, and its chunks are the response's
\* text, if any, as one text chunk, followed by one tool_call chunk per tool
\* call of the response, in the order of the response.
C30_DirectApplyEmitsTextThenToolCalls ==
  DirectApply =>
     /\ ResolvesAdapter(env, catalog, srvReq) => srvRes.chatCalls = 1
     /\ Served =>
          LET calls == CallItems(srvLlm)
              text  == IF srvLlm.content # NoContent THEN 1 ELSE 0
          IN /\ srvRes.plan = None
             /\ Len(ResChunks) = text + Len(calls)
             /\ text = 1 => ResChunks[1] = TextChunk(srvLlm.content)
             /\ \A i \in 1..Len(calls) :
                  /\ ResChunks[text + i].type = "tool_call"
                  /\ ResChunks[text + i].callId = calls[i].id
                  /\ ResChunks[text + i].toolName = calls[i].name
                  /\ ResChunks[text + i].args = JSONParse(calls[i].arguments)

\* a served direct apply whose response text holds a plan and which carries two
\* different tool calls
C30_Witness ==
  /\ DirectApply
  /\ Served
  /\ srvLlm.content # NoContent
  /\ \E u \in Uuids : extractPlanFromResponse(srvLlm.content, u) # None
  /\ Len(CallItems(srvLlm)) = 2
  /\ CallItems(srvLlm)[1].id # CallItems(srvLlm)[2].id
  /\ TypesOf(ResChunks) = <<"text", "tool_call", "tool_call">>

(***************************************************************************)
(* Properties of the catalog service (specification SpecCatalog).          *)
(***************************************************************************)

\* C31: whatever loads and reloads came before, getEnabledModels returns only
\* models whose enabled is true, and when it returns at least one model its
\* defaultModelId is defined and is the id of one of the models returned.
C31_EnabledModelsAndTheirDefault ==
  (fnCall # None /\ fnCall.fn = "getEnabledModels") =>
     LET models == fnResult.models
     IN /\ \A i \in 1..Len(models) : models[i].enabled = TRUE
        /\ models # <<>> =>
             /\ fnResult.defaultModelId # Undefined
             /\ \E i \in 1..Len(models) : models[i].id = fnResult.defaultModelId

\* the configured default has been switched off and another model is enabled:
\* the default returned is not the configured one
C31_Witness ==
  /\ fnCall # None
  /\ fnCall.fn = "getEnabledModels"
  /\ getModelById(catalog, ConfigDefaultModelId) = None
  /\ fnResult.models # <<>>
  /\ fnResult.defaultModelId # ConfigDefaultModelId

\* C40: after reloadCatalog the catalog is what the configuration file and the
\* environment of the moment give: nothing of an earlier load is left once the
\* variable behind it is gone.  No model is listed twice, and a reload that
\* follows a reload under the same environment changes nothing.
C40_ReloadDependsOnFileAndEnvOnly ==
  [][ StepOf("reloadCatalog") =>
        /\ catalog' = FreshLoad(env')
        /\ \A i, j \in 1..Len(catalog') : catalog'[i].id = catalog'[j].id => i = j
        /\ (fnCall # None /\ fnCall.fn = "reloadCatalog") => catalog' = catalog ]_vars

(***************************************************************************)
(* Properties of the chat routes (specification SpecRoutes).               *)
(***************************************************************************)
RequiredFields(route) ==
  {"modelId", "messages", "workbookSchema", "mode"}
    \cup (IF route = "POST /chat/continue" THEN {"toolResults"} ELSE {})

\* the request just answered lacks a required field or has a mode that is
\* neither plan nor apply
BodyFailsValidation ==
  /\ fnCall # None
  /\ fnCall.fn \in {"POST /chat", "POST /chat/continue"}
  /\ \/ ~HasAll(fnCall.body, RequiredFields(fnCall.fn))
     \/ fnCall.body.mode \notin {"plan", "apply"}

\* C32: a POST /chat or POST /chat/continue request that lacks modelId,
\* messages, workbookSchema, mode or (for /continue) toolResults, or whose mode
\* is neither plan nor apply, is answered with status 400 and neither
\* processChat nor continueWithToolResults is called for it.
C32_InvalidBodyIs400WithoutOrchestrator ==
  BodyFailsValidation =>
     /\ fnResult.status = 400
     /\ entry = "idle"
     /\ srvRes = None

\* a continuation request that lacks nothing but toolResults, refused
C32_Witness ==
  /\ BodyFailsValidation
  /\ fnCall.fn = "POST /chat/continue"
  /\ DOMAIN fnCall.body = {"modelId", "messages", "workbookSchema", "mode"}
  /\ fnCall.body.mode = "plan"
  /\ fnResult.status = 400

(***************************************************************************)
(* Properties of the ledger under edits by the user (SpecLedger).          *)
(***************************************************************************)

\* the artifact an entry stands for is in the workbook
ArtifactLives(book, e) ==
  CASE e.actionType = "createSheet"      -> e.artifactName \in book.sheets
    [] e.actionType = "createChart"      -> e.artifactName \in AllNames(book.charts)
    [] e.actionType = "createPivotTable" -> e.artifactName \in AllNames(book.pivots)
    [] e.actionType = "ensureTable"      -> e.artifactName \in AllNames(book.tables)
    [] OTHER                             -> e.artifactName \in book.names

\* the entries recorded for a tool and its arguments
RecordedFor(toolName, args) ==
  {e \in ledger : e.actionType = toolName /\ e.normalizedArgs = Stringify(args)}

\* this step is an executeToolCall of a ledger-guarded tool, all of whose
\* workbook batches went through
GuardedToolStep ==
  /\ lastExec' # None
  /\ now' = now + 1
  /\ lastExec'.toolName \in LedgerGuardedTools
  /\ lastExec'.ioOk

\* C33: when the artifact recorded for a ledger-guarded tool and its arguments
\* is no longer in the workbook, the next executeToolCall with the same
\* arguments invokes the creating tool again.
C33_DeletedArtifactIsRecreated ==
  [][ ( /\ GuardedToolStep
        /\ RecordedFor(lastExec'.toolName, lastExec'.args) # {}
        /\ \A e \in RecordedFor(lastExec'.toolName, lastExec'.args) : ~ArtifactLives(wb, e) )
      => lastExec'.invoked ]_vars

\* the entries stored under the key of a lookup
StoredUnder(query) ==
  {e \in ledger : /\ e.workbookFingerprint = query.workbookFingerprint
                  /\ e.actionType = query.actionType
                  /\ e.normalizedArgs = query.normalizedArgs}

\* C35: when the key of a lookup holds a stale entry, whose artifact is gone,
\* and an entry recorded later for the artifact created in its place, which is
\* in the workbook, the lookup reports verified:true.
C35_RecreatedArtifactIsVerified ==
  ( /\ lastFind # None
    /\ ~lastFind.readFails
    /\ HasAll(lastFind.query, {"workbookFingerprint", "actionType", "normalizedArgs"})
    /\ \E stale, fresh \in StoredUnder(lastFind.query) :
          /\ ~ArtifactLives(wb, stale)
          /\ ArtifactLives(wb, fresh)
          /\ fresh.createdAt > stale.createdAt )
  => lastFind.result.verified

(***************************************************************************)
(* Properties of a plan applied twice (specification SpecReapply).         *)
(***************************************************************************)
CreatingTools == {"createSheet", "createChart", "createPivotTable"}

AllBatchesOk(run) == \A i \in DOMAIN run.ios : run.ios[i] = "ok"

\* this step applies again the plan that the run before it applied, no batch
\* of either run having failed
SecondRun ==
  /\ lastRun # None
  /\ lastRun' # None
  /\ now' > now
  /\ lastRun'.steps = lastRun.steps
  /\ AllBatchesOk(lastRun)
  /\ AllBatchesOk(lastRun')

\* C34: when a plan is applied twice in succession and nothing else touches the
\* workbook, no step of it has its creating tool (createSheet, createChart,
\* createPivotTable) invoked in both runs.
C34_SecondRunCreatesNothingAgain ==
  [][ SecondRun =>
        \A i \in 1..Len(lastRun.steps) :
           ( /\ lastRun.steps[i].toolName \in CreatingTools
             /\ i <= Len(lastRun.log)
             /\ i <= Len(lastRun'.log) )
           => ~(lastRun.log[i].invoked /\ lastRun'.log[i].invoked) ]_vars

(***************************************************************************)
(* Properties of overlapping invocations (specification SpecOverlap).      *)
(***************************************************************************)
SameGuardedCall ==
  /\ inFlight[1].toolName \in LedgerGuardedTools
  /\ inFlight[1].toolName = inFlight[2].toolName
  /\ inFlight[1].args = inFlight[2].args

\* C36: of two executeToolCall invocations in progress at once for the same
\* creating tool with the same arguments, at most one invokes the tool.
C36_OverlappingCallsInvokeToolOnce ==
  SameGuardedCall => ~(inFlight[1].invoked /\ inFlight[2].invoked)

(***************************************************************************)
(* The messages of a continuation (specification SpecRoutes).              *)
(***************************************************************************)
\* the continuation that POST /chat/continue has just handed to the adapter
SentToAdapter ==
  IF fnCall # None /\ fnCall.fn = "POST /chat/continue"
     /\ entry = "continueWithToolResults" /\ srvRes.chatCalls = 1
  THEN ContinuationMessages([i \in 1..Len(fnCall.body.messages) |->
                               ParsedMessage(fnCall.body.messages[i])],
                            fnCall.body.toolResults)
  ELSE <<>>

AnswersEarlierCall(messages, i) ==
  \E j \in 1..(i - 1) :
     /\ messages[j].role = "assistant"
     /\ "toolCalls" \in DOMAIN messages[j]
     /\ \E k \in 1..Len(messages[j].toolCalls) :
           messages[j].toolCalls[k].id = messages[i].toolCallId

\* C37: in the message list continueWithToolResults gives to the adapter, every
\* message of role tool comes after an assistant message that carries a tool
\* call with the same id.
C37_ToolMessagesFollowTheirCall ==
  \A i \in 1..Len(SentToAdapter) :
     SentToAdapter[i].role = "tool" => AnswersEarlierCall(SentToAdapter, i)

(***************************************************************************)
(* The risk labels of an extracted plan (specification SpecExtract).       *)
(***************************************************************************)
\* C38: in a plan the extractor returns, no step that names a catalog tool of
\* riskLevel write or destructive carries riskLevel read, whatever label the
\* model gave the step.
C38_WritingStepsAreNeverLabelledRead ==
  (fnCall # None /\ fnCall.fn = "extractSteps" /\ fnResult # None) =>
     \A i \in 1..Len(fnResult.steps) :
        RiskOf(fnResult.steps[i].toolName) \in {"write", "destructive"}
           => fnResult.steps[i].riskLevel # "read"

(***************************************************************************)
(* Every streamed tool call is accounted for (specification SpecStream).   *)
(***************************************************************************)
\* the chunks a finalized tool call yields: tool_call or error
CallChunks == SelectSeq(strmOut, LAMBDA c : c.type \in {"tool_call", "error"})

\* C39: once the stream has ended, the adapter has yielded exactly one chunk,
\* tool_call or recoverable error, for every tool call the provider began,
\* whatever closed the stream.
C39_EveryBegunCallYieldsOneChunk ==
  strmPhase = "done" =>
     /\ Len(CallChunks) = Len(strmCalls)
     /\ \A i \in 1..Len(CallChunks) :
           CallChunks[i].type = "error" => CallChunks[i].recoverable
     /\ \A k \in 1..Len(strmCalls) :
           Len(SelectSeq(strmOut, LAMBDA c : c.type = "tool_call"
                                             /\ c.callId = strmCalls[k].id)) <= 1

====
